---- MODULE Spec2Model ----
(***************************************************************************)
(* A model of get-folder's core: SimpleSemaphore (the concurrency limiter) *)
(* and FolderSize (the recursive traversal with inode de-duplication and   *)
(* the error policy), with the properties checked of them.                 *)
(***************************************************************************)
EXTENDS Integers, Sequences, FiniteSets, TLC

\* ------------------------------------------------------------------ bounds

\* Largest permit count a standalone semaphore is constructed with.
MaxPermits == 2
\* Number of callers of the standalone semaphore.
MaxClients == 3
\* Total number of acquire() calls made on the standalone semaphore.
MaxAcquires == 4
\* Number of release() calls made by code that holds no permit.
MaxSpareReleases == 1

\* Largest `concurrency` option a traversal runs with.
MaxConcurrency == 2
\* Number of size() calls made one after another through one call slot.
MaxRuns == 2
\* Largest finite `maxDepth` option a traversal runs with.
MaxMaxDepth == 3
\* Largest `initialDepth` option lazyTree() is called with.
MaxInitialDepth == 2

\* Number of expandNode() calls made on one lazy tree.
MaxExpands == 3

\* Length up to which every string is handed to shouldIgnorePath as a path.
MaxPathLen == 2

\* Number of entries whose sizes one size() call adds up.
MaxEntries == 3

Clients == 1..MaxClients

VARIABLES
    \* -- standalone SimpleSemaphore and its callers
    limit,       \* the constructor's argument
    sem,         \* [available, waiters]: the semaphore's two fields
    cpc,         \* each caller: "idle", "waiting" (acquire pending) or "holding"
    nGranted,    \* acquire() promises resolved so far
    nReleased,   \* release() calls made so far
    nAcquires,   \* acquire() calls made so far
    nSpare,      \* release() calls made so far by code holding no permit
    suspended,   \* the callers that had to queue, in the order they called acquire()
    resumed,     \* the queued callers a release() has resumed, in resumption order
    \* -- the file system (static) and one FolderSize instance
    fs,               \* what lstat and readdir answer for each path
    given,            \* the options object handed to the constructor
    processedInodes,  \* BaseScene.processedInodes: one set per instance
    \* -- the size() calls made on the instance, per call slot
    cstate,      \* "idle", "running", "resolved" or "rejected"
    croot,       \* folderPath
    tpc,         \* per path: where its traverseItem invocation stands
    tret,        \* per path: how its traverseItem invocation settled
    dsem,        \* per directory: the semaphore of its concurrentMap call
    acc,         \* totalSize, fileCount, directoryCount, linkCount of the call
    visits,      \* per path: number of nodeCallback invocations
    runs,        \* calls completed through the slot so far
    prev,        \* the outcome of the slot's previous call
    cop,         \* the operation called and its own arguments
    tnode,       \* per path: the node its nodeCallback invocation returned
    io,          \* per path: the lstat and readdir calls made on it so far
    \* -- the lazy tree the caller holds, and the expandNode() calls made on it
    heap,        \* per path: the LazyTreeNode reachable from the root of the tree
    gen,         \* per path: how many node objects the tree has held there
    writes,      \* per path: assignments made to the node's `children` by expandNode()
    nExpand,     \* expandNode() calls made so far
    \* -- calls of the pure helpers
    ret,         \* the last call made: its arguments and what it returned
    hist         \* what the calls made so far amount to

semVars == <<limit, sem, cpc, nGranted, nReleased, nAcquires, nSpare, suspended, resumed>>
instVars == <<fs, given, processedInodes>>
callVars == <<cstate, croot, tpc, tret, dsem, acc, visits, runs, prev, cop, tnode, io>>

lazyVars == <<heap, gen, writes, nExpand>>
pureVars == <<ret, hist>>

vars == <<semVars, instVars, callVars, lazyVars, pureVars>>

\* --------------------------------------------------------- SimpleSemaphore

\* Mutant of SemNew: one permit of the pool is already taken, as it would be
\* if a directory's entries drew on the permit their directory holds.
SemNewOneTaken(concurrency) == [available |-> concurrency - 1, waiters |-> <<>>]

\* Mutant of SemNew: the limit is forced to at least one permit.
SemNewAtLeastOne(concurrency) ==
    [available |-> IF concurrency < 1 THEN 1 ELSE concurrency, waiters |-> <<>>]

\* constructor(concurrency)
SemNew(concurrency) == [available |-> concurrency, waiters |-> <<>>]

\* Mutant of SemCanTake: the test is off by one (available >= 0).
SemCanTakeOffByOne(s) == s.available >= 0

\* acquire(): does the call take a permit at once?
SemCanTake(s) == s.available > 0

\* Mutant of SemAcquire: the wrapper is put at the front of the queue.
SemAcquireUnshift(s, who) ==
    IF SemCanTake(s)
    THEN [s EXCEPT !.available = @ - 1]
    ELSE [s EXCEPT !.waiters = <<who>> \o @]

\* acquire() called by `who`: take a permit, or queue the resolve wrapper.
SemAcquire(s, who) ==
    IF SemCanTake(s)
    THEN [s EXCEPT !.available = @ - 1]
    ELSE [s EXCEPT !.waiters = Append(@, who)]

\* release(): the waiter whose wrapper is run, as a set (empty: none).
SemWoken(s) == IF Len(s.waiters) > 0 THEN {Head(s.waiters)} ELSE {}

\* release(): with waiters, shift() the first wrapper and run it (the wrapper
\* itself does available--); without, available++.
SemRelease(s) ==
    IF Len(s.waiters) > 0
    THEN [available |-> s.available - 1, waiters |-> Tail(s.waiters)]
    ELSE [s EXCEPT !.available = @ + 1]

\* ------------------------------------------------------------ file system

\* The path names. In the wide tree: 1 = root, 2 = root/a, 3 = root/b,
\* 4 = root/c, 5 = root/a/x, 6 = root/a/y (7 does not exist). In the chain:
\* 1 = root, 2 = root/level1, 3 = root/level1/file1.txt,
\* 4 = root/level1/level2, 5 = root/level1/level2/file2.txt,
\* 6 = root/level1/level2/level3, 7 = root/level1/level2/level3/file3.txt.
Nodes == 1..7

\* The directory a path is an entry of (0: none).
Parent == fs.parent

\* fs.readdir(path) of a directory, in listing order; join(path, entry) is
\* the entry itself.
Entries(n) == fs.entries[n]

WideParent == <<0, 1, 1, 1, 2, 2, 0>>
WideEntries == <<(<<2, 3, 4>>), (<<5, 6>>), <<>>, <<>>, <<>>, <<>>, <<>>>>
ChainParent == <<0, 1, 2, 2, 4, 4, 6>>
ChainEntries == <<(<<2>>), (<<3, 4>>), <<>>, (<<5, 6>>), <<>>, (<<7>>), <<>>>>

\* The inode numbers of the paths, per hard-link layout: none linked; x and y;
\* b and x; b, x and y; b, c, x and y; b with x and c with y.
LinkLayouts ==
    { <<1, 2, 3, 4, 5, 6>>, <<1, 2, 3, 4, 5, 5>>, <<1, 2, 3, 4, 3, 6>>,
      <<1, 2, 3, 4, 3, 3>>, <<1, 2, 3, 3, 3, 3>>, <<1, 2, 3, 4, 3, 4>> }

\* A file system on the wide tree: hard links share device, inode, size and
\* type.
MkFs(ino, statFails, dirFails) ==
    [ parent    |-> WideParent,
      entries   |-> WideEntries,
      dev       |-> [n \in Nodes |-> 1],
      ino       |-> [n \in Nodes |-> IF n \in DOMAIN ino THEN ino[n] ELSE n],
      size      |-> [n \in Nodes |-> IF n \in DOMAIN ino THEN 2 ^ ino[n] ELSE 2 ^ n],
      kind      |-> [n \in Nodes |-> IF n \in {1, 2} THEN "directory" ELSE "file"],
      target    |-> [n \in Nodes |-> IF n \in {1, 2} THEN "directory" ELSE "file"],
      hidden    |-> {},
      statFails |-> statFails,
      dirFails  |-> dirFails ]

\* The wide tree with entries of every kind: root/b is a symbolic link to a
\* directory, root/c is neither file, directory nor link, root/a/y is a
\* symbolic link to a file; the paths of `hidden` have a final component
\* that starts with a dot.
KindsFs(hidden) ==
    [ MkFs(<<1, 2, 3, 4, 5, 6>>, {}, {}) EXCEPT
        !.kind = [n \in Nodes |->
                    IF n \in {1, 2} THEN "directory"
                    ELSE IF n \in {3, 6} THEN "link"
                    ELSE IF n = 4 THEN "other"
                    ELSE "file"],
        !.target = [n \in Nodes |->
                      IF n \in {1, 2, 3} THEN "directory"
                      ELSE IF n = 4 THEN "other"
                      ELSE "file"],
        !.hidden = hidden ]

\* The chain root/level1/level2/level3 with one file in each levelN.
ChainFs ==
    [ MkFs(<<1, 2, 3, 4, 5, 6>>, {}, {}) EXCEPT
        !.parent = ChainParent,
        !.entries = ChainEntries,
        !.kind = [n \in Nodes |-> IF n \in {1, 2, 4, 6} THEN "directory" ELSE "file"],
        !.target = [n \in Nodes |-> IF n \in {1, 2, 4, 6} THEN "directory" ELSE "file"] ]

\* An empty root directory, and a root with one empty subdirectory.
EmptyFs == [ MkFs(<<1, 2, 3, 4, 5, 6>>, {}, {}) EXCEPT
               !.parent = [n \in Nodes |-> 0],
               !.entries = [n \in Nodes |-> <<>>] ]

OneDirFs == [ MkFs(<<1, 2, 3, 4, 5, 6>>, {}, {}) EXCEPT
                !.parent = [n \in Nodes |-> IF n = 2 THEN 1 ELSE 0],
                !.entries = [n \in Nodes |-> IF n = 1 THEN <<2>> ELSE <<>>] ]

\* The wide tree with a second, empty directory root/b next to root/a.
ForkFs ==
    [ MkFs(<<1, 2, 3, 4, 5, 6>>, {}, {}) EXCEPT
        !.kind = [n \in Nodes |-> IF n \in {1, 2, 3} THEN "directory" ELSE "file"],
        !.target = [n \in Nodes |-> IF n \in {1, 2, 3} THEN "directory" ELSE "file"] ]

\* Mutant of Lstat: the link is followed, as fs.stat does.
LstatFollows(n) ==
    [dev |-> fs.dev[n], ino |-> fs.ino[n], size |-> fs.size[n], kind |-> fs.target[n]]

\* fs.lstat(path, {bigint: true}) when it succeeds: a symbolic link is
\* reported as a link, whatever `target` it resolves to.
Lstat(n) == [dev |-> fs.dev[n], ino |-> fs.ino[n], size |-> fs.size[n], kind |-> fs.kind[n]]

\* The depth traverseItem is called with for path n under root r (root: 0,
\* each child: depth + 1).
RECURSIVE Depth(_, _)
Depth(r, n) == IF n = r \/ Parent[n] = 0 THEN 0 ELSE Depth(r, Parent[n]) + 1

\* The entry names readdir reports: the paths of fs.hidden have a name that
\* starts with a dot.
Letter == <<"r", "a", "b", "c", "x", "y", "z">>

EntryName(n) == IF n \in fs.hidden THEN <<".", Letter[n]>> ELSE <<Letter[n]>>

\* The path traverseItem is called with: join(currentPath, entry), the root
\* path for the root.
RECURSIVE PathOf(_)
PathOf(n) ==
    IF Parent[n] = 0 THEN EntryName(n)
    ELSE PathOf(Parent[n]) \o <<"/">> \o EntryName(n)

\* ------------------------------------------------------- BaseScene, options

\* Number.MAX_SAFE_INTEGER is 2^53 - 1; it is held at the largest integer
\* the model checker represents, which likewise exceeds every depth.
MAX_SAFE_INTEGER == 2147483647

\* The constructor's defaults.
DefaultOptions ==
    [ maxDepth |-> MAX_SAFE_INTEGER, ignores |-> <<>>, includeHidden |-> TRUE,
      includeLink |-> TRUE, concurrency |-> 2, ignoreErrors |-> FALSE,
      inodeCheck |-> TRUE, onError |-> "omitted" ]

\* this.options = {defaults, ...options}: an omitted onError becomes the
\* default callback () => true; a given one, undefined included, is kept.
Constructor(o) == [o EXCEPT !.onError = IF @ = "omitted" THEN "continue" ELSE @]

Options == Constructor(given)

\* path.basename (POSIX): the trailing separators are dropped, then
\* everything up to the last separator.
RECURSIVE StripTrailing(_)
StripTrailing(p) ==
    IF p # <<>> /\ p[Len(p)] = "/" THEN StripTrailing(SubSeq(p, 1, Len(p) - 1)) ELSE p

RECURSIVE AfterLastSep(_)
AfterLastSep(p) ==
    IF p = <<>> \/ p[Len(p)] = "/" THEN <<>>
    ELSE AfterLastSep(SubSeq(p, 1, Len(p) - 1)) \o <<p[Len(p)]>>

Basename(p) == AfterLastSep(StripTrailing(p))

\* PathUtil.isHiddenFile
IsHiddenFile(filePath) ==
    LET name == Basename(filePath)
    IN  IF name = <<>> \/ name = <<".">> \/ name = <<".", ".">> THEN FALSE
        ELSE Head(name) = "."

\* A RegExp object: the literal text it looks for, whether the pattern ends
\* with $, its global flag, and its lastIndex property.
RegExp(lit, atEnd, global) ==
    [lit |-> lit, atEnd |-> atEnd, global |-> global, lastIndex |-> 0]

\* The pattern matches val starting at index i (counted from 0).
MatchesAt(re, val, i) ==
    /\ i + Len(re.lit) <= Len(val)
    /\ re.atEnd => i + Len(re.lit) = Len(val)
    /\ \A j \in 1..Len(re.lit) : val[i + j] = re.lit[j]

\* The index of the leftmost match at or after `from`, or -1.
RegExpExec(re, val, from) ==
    IF \E i \in from..Len(val) : MatchesAt(re, val, i)
    THEN CHOOSE i \in from..Len(val) :
             MatchesAt(re, val, i) /\ \A h \in from..(i - 1) : ~MatchesAt(re, val, h)
    ELSE -1

\* Where RegExp.prototype.test starts to search: at lastIndex for a global
\* pattern, at 0 otherwise.
RegExpStart(re) == IF re.global THEN re.lastIndex ELSE 0

\* pattern.test(val): the value returned.
RegExpTest(re, val) == RegExpExec(re, val, RegExpStart(re)) >= 0

\* pattern.test(val): the object afterwards. A global pattern keeps the end
\* of the match in lastIndex, and 0 after a failed search.
RegExpTested(re, val) ==
    IF ~re.global THEN re
    ELSE LET i == RegExpExec(re, val, RegExpStart(re))
         IN  [re EXCEPT !.lastIndex = IF i >= 0 THEN i + Len(re.lit) ELSE 0]

\* RegExpUtil.tests: testRegs.some(pattern => pattern.test(val))
Tests(testRegs, val) == \E i \in 1..Len(testRegs) : RegExpTest(testRegs[i], val)

\* RegExpUtil.tests: the patterns afterwards; some() stops at the first
\* pattern that tests true.
TestsAfter(testRegs, val) ==
    [i \in 1..Len(testRegs) |->
        IF \A j \in 1..(i - 1) : ~RegExpTest(testRegs[j], val)
        THEN RegExpTested(testRegs[i], val)
        ELSE testRegs[i]]

\* Mutant of ShouldIgnorePath: includeHidden is not consulted.
ShouldIgnorePathAnyHidden(ignores, itemPath, includeHidden) ==
    IF IsHiddenFile(itemPath) THEN TRUE
    ELSE IF Len(ignores) > 0 THEN Tests(ignores, itemPath)
    ELSE FALSE

\* BaseScene.shouldIgnorePath: the value returned.
ShouldIgnorePath(ignores, itemPath, includeHidden) ==
    IF ~includeHidden /\ IsHiddenFile(itemPath) THEN TRUE
    ELSE IF Len(ignores) > 0 THEN Tests(ignores, itemPath)
    ELSE FALSE

\* BaseScene.shouldIgnorePath: the patterns afterwards.
IgnoresAfter(ignores, itemPath, includeHidden) ==
    IF ~includeHidden /\ IsHiddenFile(itemPath) THEN ignores
    ELSE IF Len(ignores) > 0 THEN TestsAfter(ignores, itemPath)
    ELSE ignores

\* The decimal digits as characters; a string is a sequence of characters.
Digit == <<"0", "1", "2", "3", "4", "5", "6", "7", "8", "9">>

\* String(n) of a non-negative integer, as a template literal applies it.
RECURSIVE NumberToString(_)
NumberToString(n) ==
    IF n < 10 THEN <<Digit[n + 1]>>
    ELSE NumberToString(n \div 10) \o <<Digit[(n % 10) + 1]>>

\* Mutant of GetInodeKey: the two numbers are joined without a separator.
GetInodeKeyJoined(stats) == NumberToString(stats.dev) \o NumberToString(stats.ino)

\* BaseScene.getInodeKey of a stats object: `${stats.dev}-${stats.ino}`
GetInodeKey(stats) == NumberToString(stats.dev) \o <<"-">> \o NumberToString(stats.ino)

\* BaseScene.hasInode
HasInode(set, stats) == GetInodeKey(stats) \in set

\* BaseScene.addInode
AddInode(set, stats) == set \cup {GetInodeKey(stats)}

\* BaseScene.checkInode: the value returned.
CheckInode(set, stats) == HasInode(set, stats)

\* Mutant of CheckInodeRecord: the inode is not recorded.
CheckInodeForgets(set, stats) == set

\* BaseScene.checkInode: the set afterwards.
CheckInodeRecord(set, stats) == IF HasInode(set, stats) THEN set ELSE AddInode(set, stats)

\* Mutant of ClearInode: the set is left as it is.
ClearInodeKeeps(set) == set

\* BaseScene.clearInode
ClearInode(set) == {}

\* Mutant of DepthExceeds: the entries at the limit are cut off as well.
DepthExceedsAtLimit(depth, maxDepth) == depth >= maxDepth

\* The depth test of traverseItem.
DepthExceeds(depth, maxDepth) == depth > maxDepth

\* FolderSize.handleError: "continue" when it returns, else what it throws.
HandleError(o) ==
    IF o.onError # "undefined"
    THEN IF o.onError = "continue" THEN "continue" ELSE "stopped"
    ELSE IF ~o.ignoreErrors THEN "error" ELSE "continue"

\* ---------------------------------------------------- FolderSize traversal

Calls == {1, 2}

NoSem == [available |-> 0, waiters |-> <<>>]
ZeroAcc == [size |-> 0, fileCount |-> 0, directoryCount |-> 0, linkCount |-> 0]
NoPrev == [status |-> "none"]

\* No node: traverseItem returned null, or nodeCallback returned undefined.
NoNode ==
    [ type |-> "none", depth |-> 0, hasSize |-> FALSE, size |-> 0,
      withChildren |-> FALSE, children |-> <<>>, loaded |-> FALSE,
      hasChildren |-> "undefined" ]

NoIo == [lstat |-> 0, readdir |-> 0]

\* The operations of a FolderSize instance with their own arguments: the
\* initialDepth of lazyTree's options as a set (empty: omitted).
SizeOp == [name |-> "size", initialDepth |-> {}, preCheckChildren |-> FALSE]
TreeOp == [name |-> "tree", initialDepth |-> {}, preCheckChildren |-> FALSE]
LazyTreeOp(d, pre) == [name |-> "lazyTree", initialDepth |-> d, preCheckChildren |-> pre]

\* lazyTree: options.initialDepth ?? 1
InitialDepth(op) ==
    IF op.initialDepth = {} THEN 1 ELSE CHOOSE d \in op.initialDepth : TRUE

\* No call has been made through any slot.
CallsIdle ==
    /\ cstate = [k \in Calls |-> "idle"]
    /\ tpc = [k \in Calls |-> [n \in Nodes |-> "none"]]
    /\ tret = [k \in Calls |-> [n \in Nodes |-> "none"]]
    /\ dsem = [k \in Calls |-> [n \in Nodes |-> NoSem]]
    /\ acc = [k \in Calls |-> ZeroAcc]
    /\ visits = [k \in Calls |-> [n \in Nodes |-> 0]]
    /\ runs = [k \in Calls |-> 0]
    /\ prev = [k \in Calls |-> NoPrev]
    /\ tnode = [k \in Calls |-> [n \in Nodes |-> NoNode]]
    /\ io = [k \in Calls |-> [n \in Nodes |-> NoIo]]

\* The caller holds no lazy tree.
LazyIdle ==
    /\ heap = [n \in Nodes |-> NoNode]
    /\ gen = [n \in Nodes |-> 0]
    /\ writes = [n \in Nodes |-> 0]
    /\ nExpand = 0

\* No pure helper has been called.
PureIdle ==
    /\ ret = [fn |-> "none"]
    /\ hist = {}

\* No file system and no instance are in use: the defaults.
InstIdle ==
    /\ fs = MkFs(<<1, 2, 3, 4, 5, 6>>, {}, {})
    /\ given = DefaultOptions
    /\ processedInodes = {}
    /\ croot = [k \in Calls |-> 1]
    /\ cop = [k \in Calls |-> SizeOp]

\* ------------------------------------------------ callers of the semaphore

SemInit ==
    /\ limit \in 0..MaxPermits
    /\ sem = SemNew(limit)
    /\ cpc = [c \in Clients |-> "idle"]
    /\ nGranted = 0
    /\ nReleased = 0
    /\ nAcquires = 0
    /\ nSpare = 0
    /\ suspended = <<>>
    /\ resumed = <<>>
    /\ InstIdle
    /\ CallsIdle
    /\ LazyIdle
    /\ PureIdle

\* A caller calls acquire().
Acquire(c) ==
    /\ cpc[c] = "idle"
    /\ nAcquires < MaxAcquires
    /\ nAcquires' = nAcquires + 1
    /\ sem' = SemAcquire(sem, c)
    /\ IF SemCanTake(sem)
       THEN /\ cpc' = [cpc EXCEPT ![c] = "holding"]
            /\ nGranted' = nGranted + 1
            /\ UNCHANGED suspended
       ELSE /\ cpc' = [cpc EXCEPT ![c] = "waiting"]
            /\ suspended' = Append(suspended, c)
            /\ UNCHANGED nGranted
    /\ UNCHANGED <<limit, nReleased, nSpare, resumed, instVars, callVars, lazyVars, pureVars>>

\* The effect of one release() call on the callers.
DoRelease ==
    /\ sem' = SemRelease(sem)
    /\ nReleased' = nReleased + 1
    /\ nGranted' = nGranted + Cardinality(SemWoken(sem))
    /\ resumed' = IF SemWoken(sem) = {} THEN resumed
                  ELSE Append(resumed, CHOOSE w \in SemWoken(sem) : TRUE)

\* A caller that holds a permit calls release().
Release(c) ==
    /\ cpc[c] = "holding"
    /\ DoRelease
    /\ cpc' = [d \in Clients |->
                 IF d = c THEN "idle"
                 ELSE IF d \in SemWoken(sem) THEN "holding"
                 ELSE cpc[d]]
    /\ UNCHANGED <<limit, nAcquires, nSpare, suspended, instVars, callVars, lazyVars, pureVars>>

\* Code that holds no permit calls release().
SpareRelease ==
    /\ nSpare < MaxSpareReleases
    /\ nSpare' = nSpare + 1
    /\ DoRelease
    /\ cpc' = [d \in Clients |-> IF d \in SemWoken(sem) THEN "holding" ELSE cpc[d]]
    /\ UNCHANGED <<limit, nAcquires, suspended, instVars, callVars, lazyVars, pureVars>>

SemMatchedNext ==
    \/ \E c \in Clients : Acquire(c)
    \/ \E c \in Clients : Release(c)

SemNext ==
    \/ \E c \in Clients : Acquire(c)
    \/ \E c \in Clients : Release(c)
    \/ SpareRelease

\* Every kind of call, matched or not.
SemSpec == SemInit /\ [][SemNext]_vars

\* Matched calls only; a caller that holds a permit eventually releases it.
SemFairSpec ==
    /\ SemInit
    /\ [][SemMatchedNext]_vars
    /\ \A c \in Clients : WF_vars(Release(c))

\* ------------------------------------------- FolderSize traversal: the steps

\* The depth limit of the walk: traverseFileSystem tests options.maxDepth,
\* traverseLazyFileSystem the initialDepth it was passed.
DepthLimit(k) ==
    IF cop[k].name = "lazyTree" THEN InitialDepth(cop[k]) ELSE Options.maxDepth

\* traverseItem's tests before its first await: the depth limit, then the filter.
Skip(k, n) ==
    \/ DepthExceeds(Depth(croot[k], n), DepthLimit(k))
    \/ ShouldIgnorePath(Options.ignores, PathOf(n), Options.includeHidden)

\* concurrentMap: items.map calls acquire() for every item, in order, before
\* anything else runs.
\* Mutant of AcquireAll: every item takes a permit at once, none queues.
AcquireAllAtOnce(s, items) == [s EXCEPT !.available = @ - Len(items)]

RECURSIVE AcquireAll(_, _)
AcquireAll(s, items) ==
    IF items = <<>> THEN s ELSE AcquireAll(SemAcquire(s, Head(items)), Tail(items))

InSeq(x, q) == \E i \in 1..Len(q) : q[i] = x

\* Mutant of NodeCallback: only the sizes of regular files are added.
NodeCallbackFileBytes(a, isRoot, stats, includeLink) ==
    [ size |-> IF stats.kind = "file" THEN a.size + stats.size ELSE a.size,
      linkCount |-> IF stats.kind = "link" THEN a.linkCount + 1 ELSE a.linkCount,
      directoryCount |->
        IF stats.kind = "directory" /\ ~isRoot THEN a.directoryCount + 1
        ELSE a.directoryCount,
      fileCount |-> IF stats.kind = "file" THEN a.fileCount + 1 ELSE a.fileCount ]

\* Mutant of NodeCallback: the root directory is counted like any other.
NodeCallbackCountsRoot(a, isRoot, stats, includeLink) ==
    [ size |->
        IF stats.kind = "link"
        THEN (IF includeLink THEN a.size + stats.size ELSE a.size)
        ELSE a.size + stats.size,
      linkCount |-> IF stats.kind = "link" THEN a.linkCount + 1 ELSE a.linkCount,
      directoryCount |->
        IF stats.kind = "directory" THEN a.directoryCount + 1
        ELSE a.directoryCount,
      fileCount |-> IF stats.kind = "file" THEN a.fileCount + 1 ELSE a.fileCount ]

\* calculateSizeNodeJs.nodeCallback: the counters after one entry.
NodeCallback(a, isRoot, stats, includeLink) ==
    [ size |->
        IF stats.kind = "link"
        THEN (IF includeLink THEN a.size + stats.size ELSE a.size)
        ELSE a.size + stats.size,
      linkCount |-> IF stats.kind = "link" THEN a.linkCount + 1 ELSE a.linkCount,
      directoryCount |->
        IF stats.kind = "directory" /\ ~isRoot THEN a.directoryCount + 1
        ELSE a.directoryCount,
      fileCount |-> IF stats.kind = "file" THEN a.fileCount + 1 ELSE a.fileCount ]

\* Mutant of TreeCount: whatever is neither link nor directory counts as a
\* file, as the node's `type` has it.
TreeCountByType(a, isRoot, stats) ==
    [ size |-> a.size,
      linkCount |-> IF stats.kind = "link" THEN a.linkCount + 1 ELSE a.linkCount,
      fileCount |-> IF stats.kind \in {"file", "other"} THEN a.fileCount + 1
                    ELSE a.fileCount,
      directoryCount |->
        IF stats.kind = "directory" /\ ~isRoot THEN a.directoryCount + 1
        ELSE a.directoryCount ]

\* buildTreeNodeJs.nodeCallback and buildLazyTreeNodeJs.nodeCallback: the
\* counters after one entry (neither keeps a total size).
TreeCount(a, isRoot, stats) ==
    [ size |-> a.size,
      linkCount |-> IF stats.kind = "link" THEN a.linkCount + 1 ELSE a.linkCount,
      fileCount |-> IF stats.kind = "file" THEN a.fileCount + 1 ELSE a.fileCount,
      directoryCount |->
        IF stats.kind = "directory" /\ ~isRoot THEN a.directoryCount + 1
        ELSE a.directoryCount ]

\* The `type` of a node: isSymbolicLink ? 'link' : (isDirectory ? 'directory' : 'file').
NodeType(stats) ==
    IF stats.kind = "link" THEN "link"
    ELSE IF stats.kind = "directory" THEN "directory"
    ELSE "file"

\* buildTreeNodeJs.nodeCallback: the TreeNode built. A TreeNode has no
\* `loaded` and no `hasChildren`; a node without `size` has hasSize FALSE, a
\* node without `children` has withChildren FALSE. The children are the
\* paths of the child nodes.
TreeNode(stats, depth, children, includeLink) ==
    [ type |-> NodeType(stats),
      depth |-> depth,
      hasSize |-> (stats.kind = "link" /\ includeLink) \/ stats.kind = "file",
      size |-> IF (stats.kind = "link" /\ includeLink) \/ stats.kind = "file"
               THEN stats.size ELSE 0,
      withChildren |-> stats.kind = "directory",
      children |-> IF stats.kind = "directory" THEN children ELSE <<>>,
      loaded |-> FALSE,
      hasChildren |-> "undefined" ]

\* Mutant of LazyTreeNode: a directory at the initial depth counts as loaded.
LazyTreeNodeLoadsLimit(stats, depth, children, includeLink, initialDepth) ==
    [ TreeNode(stats, depth, children, includeLink) EXCEPT
        !.loaded = depth <= initialDepth,
        !.hasChildren =
            IF stats.kind = "directory" /\ depth <= initialDepth
            THEN (IF Len(children) > 0 THEN "true" ELSE "false")
            ELSE "undefined" ]

\* buildLazyTreeNodeJs.nodeCallback: the LazyTreeNode built.
LazyTreeNode(stats, depth, children, includeLink, initialDepth) ==
    [ TreeNode(stats, depth, children, includeLink) EXCEPT
        !.loaded = depth < initialDepth,
        !.hasChildren =
            IF stats.kind = "directory" /\ depth < initialDepth
            THEN (IF Len(children) > 0 THEN "true" ELSE "false")
            ELSE "undefined" ]

\* concurrentMap: the array Promise.all resolves with, one slot per item in
\* the order of the items: what the item's processor returned (size()'s
\* nodeCallback returns undefined), or null where it returned null or threw.
Results(k, n) ==
    [ i \in 1..Len(Entries(n)) |->
        [ item |-> Entries(n)[i],
          value |-> IF tret[k][Entries(n)[i]] # "returned" THEN "null"
                    ELSE IF cop[k].name = "size" THEN "undefined"
                    ELSE "node" ] ]

\* Mutant of Children: the kept results in reverse order.
ChildrenReversed(k, n) ==
    LET kept == SelectSeq(Results(k, n), LAMBDA r : r.value = "node")
    IN  [i \in 1..Len(kept) |-> kept[Len(kept) + 1 - i].item]

\* concurrentMapFiltered: the results that are not null or undefined, in the
\* order of the items (size()'s nodeCallback returns undefined).
Children(k, n) ==
    LET kept == SelectSeq(Results(k, n), LAMBDA r : r.value = "node")
    IN  [i \in 1..Len(kept) |-> kept[i].item]

\* nodeCallback(item, children) runs for path n.
Visit(k, n, children) ==
    LET stats == Lstat(n)
        isRoot == n = croot[k]
        depth == Depth(croot[k], n)
    IN  /\ acc' = [acc EXCEPT ![k] =
                     IF cop[k].name = "size"
                     THEN NodeCallback(@, isRoot, stats, Options.includeLink)
                     ELSE TreeCount(@, isRoot, stats)]
        /\ tnode' = [tnode EXCEPT ![k][n] =
                       IF cop[k].name = "size" THEN NoNode
                       ELSE IF cop[k].name = "tree"
                       THEN TreeNode(stats, depth, children, Options.includeLink)
                       ELSE LazyTreeNode(stats, depth, children, Options.includeLink,
                                         InitialDepth(cop[k]))]
        /\ visits' = [visits EXCEPT ![k][n] = @ + 1]

\* setHasChildrenForUnloadedNodes: the directory nodes it reads.
Unchecked(nodes) ==
    {m \in Nodes : /\ nodes[m].type = "directory"
                   /\ ~nodes[m].loaded
                   /\ nodes[m].hasChildren = "undefined"}

\* Mutant of Settle: tree() and lazyTree() resolve without a root node.
SettleWithoutRoot(k, o) ==
    IF o \in {"stopped", "error"} THEN "rejected" ELSE "resolved"

\* How the top-level call settles once traverseItem(rootPath) has settled
\* with outcome o: a throw rejects it; tree() and lazyTree() also reject
\* when there is no root node.
Settle(k, o) ==
    IF o \in {"stopped", "error"} THEN "rejected"
    ELSE IF o = "null" /\ cop[k].name # "size" THEN "rejected"
    ELSE "resolved"

\* Mutant of WrapperRelease: the permit is kept when the processor throws.
WrapperReleaseUnlessThrown(s, o) ==
    IF o \in {"stopped", "error"} THEN s ELSE SemRelease(s)

\* concurrentMap's wrapper: the finally block releases the permit whether
\* the processor returned or threw.
WrapperRelease(s, o) == SemRelease(s)

\* Mutant of ReaddirFailed: the directory's node is dropped.
ReaddirFailedDropsNode(o) ==
    IF HandleError(o) = "continue" THEN "null" ELSE HandleError(o)

\* traverseItem after a failed readdir: what handleError throws, or the
\* directory's own node, built without children.
ReaddirFailed(o) ==
    IF HandleError(o) = "continue" THEN "returned" ELSE HandleError(o)

\* traverseItem(n) settles with outcome o. For the root this settles the
\* call, unless lazyTree() goes on to pre-check the unloaded directories.
\* For an entry, concurrentMap's wrapper turns a throw into null and
\* releases its permit in the finally block, which resumes the first waiter.
Finish(k, n, o) ==
    /\ tret' = [tret EXCEPT ![k][n] = o]
    /\ IF n = croot[k]
       THEN IF /\ o = "returned"
               /\ cop[k].name = "lazyTree"
               /\ cop[k].preCheckChildren
               /\ Unchecked(tnode'[k]) # {}
            THEN /\ tpc' = [tpc EXCEPT ![k] =
                              [m \in Nodes |->
                                 IF m \in Unchecked(tnode'[k]) THEN "precheck"
                                 ELSE IF m = n THEN "done"
                                 ELSE @[m]]]
                 /\ UNCHANGED <<dsem, cstate>>
            ELSE /\ cstate' = [cstate EXCEPT ![k] = Settle(k, o)]
                 /\ tpc' = [tpc EXCEPT ![k][n] = "done"]
                 /\ UNCHANGED dsem
       ELSE LET before == dsem[k][Parent[n]]
                after == WrapperRelease(before, o)
            IN  /\ dsem' = [dsem EXCEPT ![k][Parent[n]] = after]
                /\ tpc' = [tpc EXCEPT ![k] =
                             [m \in Nodes |->
                                IF m = n THEN "done"
                                ELSE IF InSeq(m, before.waiters) /\ ~InSeq(m, after.waiters)
                                THEN "granted"
                                ELSE @[m]]]
                /\ UNCHANGED cstate

\* The operation of slot k is called: clearInode(), then
\* traverseItem(folderPath, 0) up to its first await.
Call(k) ==
    /\ cstate[k] = "idle"
    /\ processedInodes' = ClearInode(processedInodes)
    /\ IF Skip(k, croot[k])
       THEN /\ cstate' = [cstate EXCEPT ![k] = Settle(k, "null")]
            /\ tpc' = [tpc EXCEPT ![k][croot[k]] = "done"]
            /\ tret' = [tret EXCEPT ![k][croot[k]] = "null"]
       ELSE /\ cstate' = [cstate EXCEPT ![k] = "running"]
            /\ tpc' = [tpc EXCEPT ![k][croot[k]] = "lstat"]
            /\ UNCHANGED tret
    /\ UNCHANGED <<fs, given, croot, dsem, acc, visits, runs, prev, cop, tnode, io, semVars, lazyVars, pureVars>>

\* size(folderPath)
CallSize(k) == cop[k].name = "size" /\ Call(k)

\* tree(folderPath)
CallTree(k) == cop[k].name = "tree" /\ Call(k)

\* lazyTree(folderPath, options)
CallLazyTree(k) == cop[k].name = "lazyTree" /\ Call(k)

\* An entry's wrapper has its permit: traverseItem(childPath, depth + 1) runs
\* up to its first await.
StartChild(k, n) ==
    /\ cstate[k] = "running"
    /\ tpc[k][n] = "granted"
    /\ IF Skip(k, n)
       THEN Finish(k, n, "null")
       ELSE /\ tpc' = [tpc EXCEPT ![k][n] = "lstat"]
            /\ UNCHANGED <<tret, dsem, cstate>>
    /\ UNCHANGED <<instVars, croot, acc, visits, runs, prev, cop, tnode, io, semVars, lazyVars, pureVars>>

\* fs.lstat settles: error policy, inode check, classification.
LstatDone(k, n) ==
    /\ tpc[k][n] = "lstat"
    /\ io' = [io EXCEPT ![k][n].lstat = @ + 1]
    /\ IF n \in fs.statFails
       THEN /\ Finish(k, n, IF HandleError(Options) = "continue" THEN "null"
                            ELSE HandleError(Options))
            /\ UNCHANGED <<processedInodes, acc, visits, tnode>>
       ELSE IF Options.inodeCheck /\ CheckInode(processedInodes, Lstat(n))
       THEN /\ Finish(k, n, "null")
            /\ UNCHANGED <<processedInodes, acc, visits, tnode>>
       ELSE /\ processedInodes' =
                  IF Options.inodeCheck
                  THEN CheckInodeRecord(processedInodes, Lstat(n))
                  ELSE processedInodes
            /\ IF Lstat(n).kind = "directory"
               THEN /\ tpc' = [tpc EXCEPT ![k][n] = "readdir"]
                    /\ UNCHANGED <<tret, dsem, cstate, acc, visits, tnode>>
               ELSE /\ Visit(k, n, <<>>)
                    /\ Finish(k, n, "returned")
    /\ UNCHANGED <<fs, given, croot, runs, prev, cop, semVars, lazyVars, pureVars>>

\* fs.readdir settles: on failure the error policy, then the directory's own
\* node is still processed; on success concurrentMap starts.
ReaddirDone(k, n) ==
    /\ tpc[k][n] = "readdir"
    /\ io' = [io EXCEPT ![k][n].readdir = @ + 1]
    /\ IF n \in fs.dirFails
       THEN IF ReaddirFailed(Options) = "returned"
            THEN Visit(k, n, <<>>) /\ Finish(k, n, "returned")
            ELSE Finish(k, n, ReaddirFailed(Options)) /\ UNCHANGED <<acc, visits, tnode>>
       ELSE /\ dsem' = [dsem EXCEPT ![k][n] =
                          AcquireAll(SemNew(Options.concurrency), Entries(n))]
            /\ tpc' = [tpc EXCEPT ![k] =
                         [m \in Nodes |->
                            IF m = n THEN "kids"
                            ELSE IF ~InSeq(m, Entries(n)) THEN @[m]
                            ELSE IF InSeq(m, dsem'[k][n].waiters) THEN "queued"
                            ELSE "granted"]]
            /\ UNCHANGED <<tret, cstate, acc, visits, tnode>>
    /\ UNCHANGED <<instVars, croot, runs, prev, cop, semVars, lazyVars, pureVars>>

\* Mutant of PromiseAll: the first wrapper to settle resolves it, as
\* Promise.race does.
PromiseRace(k, n) ==
    Entries(n) = <<>> \/ \E m \in Nodes : InSeq(m, Entries(n)) /\ tpc[k][m] = "done"

\* concurrentMap's Promise.all(promises) over the wrappers of n's entries:
\* no wrapper rejects ('ignore'), so it resolves once every wrapper has.
PromiseAll(k, n) ==
    \A m \in Nodes : InSeq(m, Entries(n)) => tpc[k][m] = "done"

\* Promise.all of concurrentMap resolves: nodeCallback(item, children).
KidsDone(k, n) ==
    /\ tpc[k][n] = "kids"
    /\ PromiseAll(k, n)
    /\ Visit(k, n, Children(k, n))
    /\ Finish(k, n, "returned")
    /\ UNCHANGED <<instVars, croot, runs, prev, cop, io, semVars, lazyVars, pureVars>>

\* Mutant of SetHasChildren: the node is marked as loaded as well.
SetHasChildrenLoads(node, n) ==
    [node EXCEPT !.loaded = TRUE,
                 !.hasChildren = IF n \in fs.dirFails THEN "false"
                                 ELSE IF Len(Entries(n)) > 0 THEN "true" ELSE "false"]

\* setHasChildrenForUnloadedNodes: the one assignment it makes to the node
\* at path n, from the outcome of a readdir.
SetHasChildren(node, n) ==
    [node EXCEPT !.hasChildren = IF n \in fs.dirFails THEN "false"
                                 ELSE IF Len(Entries(n)) > 0 THEN "true" ELSE "false"]

\* setHasChildrenForUnloadedNodes: the readdir of one unloaded directory
\* settles; lazyTree() resolves after the last of them.
PrecheckDone(k, n) ==
    /\ cstate[k] = "running"
    /\ tpc[k][n] = "precheck"
    /\ io' = [io EXCEPT ![k][n].readdir = @ + 1]
    /\ tnode' = [tnode EXCEPT ![k][n] = SetHasChildren(@, n)]
    /\ tpc' = [tpc EXCEPT ![k][n] = "done"]
    /\ cstate' = [cstate EXCEPT ![k] =
                    IF \E m \in Nodes \ {n} : tpc[k][m] = "precheck"
                    THEN "running" ELSE "resolved"]
    /\ UNCHANGED <<instVars, croot, tret, dsem, acc, visits, runs, prev, cop, semVars, lazyVars, pureVars>>

\* What the caller gets: the counters (and, in tnode, the tree), or the
\* error thrown.
Outcome(k) ==
    IF cstate[k] = "resolved"
    THEN [status |-> "resolved", result |-> acc[k]]
    ELSE [status |-> "rejected", error |-> tret[k][croot[k]]]

\* The call has settled and the caller makes the next one, on the same
\* instance or on a fresh one with the same options.
Recall(k, fresh) ==
    /\ cstate[k] \in {"resolved", "rejected"}
    /\ runs[k] + 1 < MaxRuns
    /\ runs' = [runs EXCEPT ![k] = @ + 1]
    /\ prev' = [prev EXCEPT ![k] = Outcome(k)]
    /\ cstate' = [cstate EXCEPT ![k] = "idle"]
    /\ tpc' = [tpc EXCEPT ![k] = [n \in Nodes |-> "none"]]
    /\ tret' = [tret EXCEPT ![k] = [n \in Nodes |-> "none"]]
    /\ dsem' = [dsem EXCEPT ![k] = [n \in Nodes |-> NoSem]]
    /\ acc' = [acc EXCEPT ![k] = ZeroAcc]
    /\ visits' = [visits EXCEPT ![k] = [n \in Nodes |-> 0]]
    /\ tnode' = [tnode EXCEPT ![k] = [n \in Nodes |-> NoNode]]
    /\ io' = [io EXCEPT ![k] = [n \in Nodes |-> NoIo]]
    /\ processedInodes' = IF fresh THEN {} ELSE processedInodes
    /\ UNCHANGED <<fs, given, croot, cop, semVars, lazyVars, pureVars>>

\* The standalone semaphore is not in use.
SemIdle ==
    /\ limit = 0
    /\ sem = SemNew(0)
    /\ cpc = [c \in Clients |-> "idle"]
    /\ nGranted = 0
    /\ nReleased = 0
    /\ nAcquires = 0
    /\ nSpare = 0
    /\ suspended = <<>>
    /\ resumed = <<>>

\* The error policies a caller can configure.
Policies ==
    { [ignoreErrors |-> ie, onError |-> oe] :
        ie \in BOOLEAN, oe \in {"omitted", "undefined", "continue", "stop"} }

\* The file systems with one failing call, and those with none.
FailingFileSystems ==
    { MkFs(<<1, 2, 3, 4, 5, 6>>, sf, {}) : sf \in {{1}, {3}, {5}} }
    \cup { MkFs(<<1, 2, 3, 4, 5, 6>>, {}, df) : df \in {{1}, {2}} }
    \cup { MkFs(<<1, 2, 3, 4, 3, 6>>, {5}, {}) }

SoundFileSystems == { MkFs(ino, {}, {}) : ino \in LinkLayouts }

\* One instance, one call at a time on the whole tree or on root/a.
TravInit ==
    /\ SemIdle
    /\ CallsIdle
    /\ LazyIdle
    /\ PureIdle
    /\ processedInodes = {}
    /\ croot \in [Calls -> {1, 2}]
    /\ croot[2] = 1
    /\ cop = [k \in Calls |-> SizeOp]
    /\ \E c \in 0..MaxConcurrency, ic \in BOOLEAN, p \in Policies :
          given = [DefaultOptions EXCEPT !.concurrency = c, !.inodeCheck = ic,
                      !.ignoreErrors = p.ignoreErrors, !.onError = p.onError]
    /\ \/ fs \in FailingFileSystems
       \/ /\ fs \in SoundFileSystems
          /\ given.onError = "omitted"
          /\ ~given.ignoreErrors

TravNext ==
    \/ CallSize(1)
    \/ \E n \in Nodes : StartChild(1, n)
    \/ \E n \in Nodes : LstatDone(1, n)
    \/ \E n \in Nodes : ReaddirDone(1, n)
    \/ \E n \in Nodes : KidsDone(1, n)
    \/ \E fresh \in BOOLEAN : Recall(1, fresh)

\* size() calls made one after another.
TravSpec == TravInit /\ [][TravNext]_vars

\* One instance with the default error policy and no hard links; two calls
\* on root/a that may overlap.
OverlapInit ==
    /\ SemIdle
    /\ CallsIdle
    /\ LazyIdle
    /\ PureIdle
    /\ processedInodes = {}
    /\ croot = [k \in Calls |-> 2]
    /\ cop = [k \in Calls |-> SizeOp]
    /\ fs = MkFs(<<1, 2, 3, 4, 5, 6>>, {}, {})
    /\ \E c \in 1..MaxConcurrency, ic \in BOOLEAN :
          given = [DefaultOptions EXCEPT !.concurrency = c, !.inodeCheck = ic]

OverlapNext ==
    \E k \in Calls :
        \/ CallSize(k)
        \/ \E n \in Nodes : StartChild(k, n)
        \/ \E n \in Nodes : LstatDone(k, n)
        \/ \E n \in Nodes : ReaddirDone(k, n)
        \/ \E n \in Nodes : KidsDone(k, n)

\* Calls on one instance that overlap in time.
OverlapSpec == OverlapInit /\ [][OverlapNext]_vars

\* The sets of paths whose final component starts with a dot.
HiddenSets == {{}, {2}, {4}, {3, 5}}

\* File systems whose calls all succeed: entries of every kind, hidden
\* entries, deep nesting, and an empty root.
FoldFileSystems == {ChainFs, EmptyFs, OneDirFs} \cup {KindsFs(h) : h \in HiddenSets}

\* One size() or tree() call on the whole tree, with every option in play.
FoldInit ==
    /\ SemIdle
    /\ CallsIdle
    /\ LazyIdle
    /\ PureIdle
    /\ processedInodes = {}
    /\ croot = [k \in Calls |-> 1]
    /\ cop \in [Calls -> {SizeOp, TreeOp}]
    /\ cop[2] = SizeOp
    /\ \E c \in 1..MaxConcurrency, md \in (0..MaxMaxDepth) \cup {MAX_SAFE_INTEGER},
          ih \in BOOLEAN, il \in BOOLEAN, p \in Policies :
          /\ given = [DefaultOptions EXCEPT !.concurrency = c, !.maxDepth = md,
                         !.includeHidden = ih, !.includeLink = il,
                         !.ignoreErrors = p.ignoreErrors, !.onError = p.onError]
          /\ \/ /\ fs \in FoldFileSystems
                /\ p = [ignoreErrors |-> FALSE, onError |-> "omitted"]
             \/ /\ fs \in FailingFileSystems
                /\ md = MAX_SAFE_INTEGER
                /\ ih
                /\ il

FoldNext ==
    \/ CallSize(1)
    \/ CallTree(1)
    \/ \E n \in Nodes : StartChild(1, n)
    \/ \E n \in Nodes : LstatDone(1, n)
    \/ \E n \in Nodes : ReaddirDone(1, n)
    \/ \E n \in Nodes : KidsDone(1, n)

\* size() and tree() as two folds over the same walk.
FoldSpec == FoldInit /\ [][FoldNext]_vars

\* The file systems lazyTree() is called on: deep nesting, entries of every
\* kind, a hidden directory, and a directory whose listing fails.
LazyFileSystems ==
    {ChainFs, OneDirFs, KindsFs({}), KindsFs({2}), MkFs(<<1, 2, 3, 4, 5, 6>>, {}, {2})}

\* One lazyTree() call on the whole tree.
LazyInit ==
    /\ SemIdle
    /\ CallsIdle
    /\ LazyIdle
    /\ PureIdle
    /\ processedInodes = {}
    /\ croot = [k \in Calls |-> 1]
    /\ \E d \in {{}} \cup {{i} : i \in 0..MaxInitialDepth}, pre \in BOOLEAN :
          cop = [k \in Calls |-> IF k = 1 THEN LazyTreeOp(d, pre) ELSE SizeOp]
    /\ \E c \in 1..MaxConcurrency, md \in {0, MAX_SAFE_INTEGER}, ih \in BOOLEAN :
          given = [DefaultOptions EXCEPT !.concurrency = c, !.maxDepth = md,
                      !.includeHidden = ih]
    /\ fs \in LazyFileSystems

LazyNext ==
    \/ CallLazyTree(1)
    \/ \E n \in Nodes : StartChild(1, n)
    \/ \E n \in Nodes : LstatDone(1, n)
    \/ \E n \in Nodes : ReaddirDone(1, n)
    \/ \E n \in Nodes : KidsDone(1, n)
    \/ \E n \in Nodes : PrecheckDone(1, n)

\* The initial build of a lazy tree.
LazySpec == LazyInit /\ [][LazyNext]_vars

\* The trees size() and tree() are compared on: those of FoldSpec, those
\* with a failing call, and one with hard links.
PairFileSystems ==
    FoldFileSystems \cup FailingFileSystems \cup {MkFs(<<1, 2, 3, 4, 3, 3>>, {}, {})}

\* One instance and one static tree: size(root) through slot 1, tree(root)
\* through slot 2.
PairInit ==
    /\ SemIdle
    /\ CallsIdle
    /\ LazyIdle
    /\ PureIdle
    /\ processedInodes = {}
    /\ croot = [k \in Calls |-> 1]
    /\ cop = [k \in Calls |-> IF k = 1 THEN SizeOp ELSE TreeOp]
    /\ fs \in PairFileSystems
    /\ \E c \in 1..MaxConcurrency, md \in {0, 1, MAX_SAFE_INTEGER},
          ih \in BOOLEAN, il \in BOOLEAN, ic \in BOOLEAN, p \in Policies :
          /\ given = [DefaultOptions EXCEPT !.concurrency = c, !.maxDepth = md,
                         !.includeHidden = ih, !.includeLink = il, !.inodeCheck = ic,
                         !.ignoreErrors = p.ignoreErrors, !.onError = p.onError]
          /\ ih \/ fs.hidden # {}
          /\ il \/ fs = KindsFs({})
          /\ md = MAX_SAFE_INTEGER \/ fs \in {ChainFs, KindsFs({})}
          /\ ic \/ fs.ino[5] = 3
          /\ \/ fs.statFails \cup fs.dirFails # {}
             \/ p = [ignoreErrors |-> FALSE, onError |-> "omitted"]

\* The caller awaits the result of size() and then calls tree().
ThenCallTree == cstate[1] \in {"resolved", "rejected"} /\ CallTree(2)

PairNext ==
    \/ CallSize(1)
    \/ ThenCallTree
    \/ \E k \in Calls :
          \/ \E n \in Nodes : StartChild(k, n)
          \/ \E n \in Nodes : LstatDone(k, n)
          \/ \E n \in Nodes : ReaddirDone(k, n)
          \/ \E n \in Nodes : KidsDone(k, n)

\* size() and then tree() on the same instance and tree.
PairSpec == PairInit /\ [][PairNext]_vars

\* The operations whose settling is followed.
SettleOps ==
    {SizeOp, TreeOp} \cup {LazyTreeOp(d, pre) : d \in {{}, {0}, {2}}, pre \in BOOLEAN}

\* Deep nesting, entries of every kind, an empty root, a hidden root, a
\* hidden directory, and failing lstat and readdir calls on the root and
\* below it.
SettleFileSystems ==
    {ChainFs, EmptyFs, KindsFs({}), KindsFs({1}), KindsFs({2})}
    \cup {MkFs(<<1, 2, 3, 4, 5, 6>>, sf, {}) : sf \in {{1}, {5}}}
    \cup {MkFs(<<1, 2, 3, 4, 5, 6>>, {}, df) : df \in {{1}, {2}}}

\* The `ignores` lists: none, /r$/ (the root path 'r' and nothing below
\* it), and /b/ (root/b).
SettleIgnores ==
    {<<>>, <<RegExp(<<"r">>, TRUE, FALSE)>>, <<RegExp(<<"b">>, FALSE, FALSE)>>}

\* One size(), tree() or lazyTree() call on a directory or on a path that
\* is no directory (path 3), with any concurrency from 0 up.
SettleInit ==
    /\ SemIdle
    /\ CallsIdle
    /\ LazyIdle
    /\ PureIdle
    /\ processedInodes = {}
    /\ croot \in [Calls -> {1, 3}]
    /\ croot[2] = 1
    /\ cop \in [Calls -> SettleOps]
    /\ cop[2] = SizeOp
    /\ fs \in SettleFileSystems
    /\ \E c \in 0..MaxConcurrency, md \in {0, MAX_SAFE_INTEGER}, ih \in BOOLEAN,
          ig \in SettleIgnores, p \in Policies :
          /\ given = [DefaultOptions EXCEPT !.concurrency = c, !.maxDepth = md,
                         !.includeHidden = ih, !.ignores = ig,
                         !.ignoreErrors = p.ignoreErrors, !.onError = p.onError]
          /\ ih \/ fs.hidden # {}
          /\ ig = <<>> \/ fs = KindsFs({})
          /\ md = MAX_SAFE_INTEGER \/ fs = ChainFs
          /\ \/ fs.statFails \cup fs.dirFails # {}
             \/ p = [ignoreErrors |-> FALSE, onError |-> "omitted"]

SettleNext ==
    \/ CallSize(1)
    \/ CallTree(1)
    \/ CallLazyTree(1)
    \/ \E n \in Nodes : StartChild(1, n)
    \/ \E n \in Nodes : LstatDone(1, n)
    \/ \E n \in Nodes : ReaddirDone(1, n)
    \/ \E n \in Nodes : KidsDone(1, n)
    \/ \E n \in Nodes : PrecheckDone(1, n)

\* The call is made, every lstat and readdir call settles, and every
\* continuation that can run does run.
SettleSpec == SettleInit /\ [][SettleNext]_vars /\ WF_vars(SettleNext)

\* ---------------------------------------------------- FolderSize.expandNode

ExpandNodeOp == [name |-> "expandNode", initialDepth |-> {}, preCheckChildren |-> FALSE]

\* Path m lies strictly below path n.
RECURSIVE Below(_, _)
Below(n, m) == Parent[m] # 0 /\ (Parent[m] = n \/ Below(n, Parent[m]))

\* Mutant of ExpandSkips: only the loaded flag is tested.
ExpandSkipsLoaded(node) == node.loaded

\* expandNode's guard: a node that is no directory, or is loaded, is left alone.
ExpandSkips(node) == node.type # "directory" \/ node.loaded

\* fs.readdir(path) fails: the listing is unreadable, or the path (a
\* symbolic link resolved) is no directory.
ReaddirFails(n) == n \in fs.dirFails \/ fs.target[n] # "directory"

\* Mutant of ChildDepth: the children get the depth of their parent.
ChildDepthSame(node) == node.depth

\* The depth expandNode passes to buildSingleLazyNode.
ChildDepth(node) == node.depth + 1

\* Mutant of SingleLazyNode: every node starts as loaded.
SingleLazyNodeLoaded(stats, depth, includeLink) ==
    [ type |-> NodeType(stats),
      depth |-> depth,
      hasSize |-> (stats.kind = "link" /\ includeLink) \/ stats.kind = "file",
      size |-> IF (stats.kind = "link" /\ includeLink) \/ stats.kind = "file"
               THEN stats.size ELSE 0,
      withChildren |-> stats.kind = "directory",
      children |-> <<>>,
      loaded |-> TRUE,
      hasChildren |-> "undefined" ]

\* buildSingleLazyNode(itemPath, depth, false): the node built from the
\* entry's lstat. A directory gets an empty children list and loaded =
\* false; hasChildren stays undefined.
SingleLazyNode(stats, depth, includeLink) ==
    [ type |-> NodeType(stats),
      depth |-> depth,
      hasSize |-> (stats.kind = "link" /\ includeLink) \/ stats.kind = "file",
      size |-> IF (stats.kind = "link" /\ includeLink) \/ stats.kind = "file"
               THEN stats.size ELSE 0,
      withChildren |-> stats.kind = "directory",
      children |-> <<>>,
      loaded |-> stats.kind # "directory",
      hasChildren |-> "undefined" ]

\* Mutant of ExpandFailed: the node is marked as loaded all the same.
ExpandFailedLoads(node) == [node EXCEPT !.loaded = TRUE, !.hasChildren = "false"]

\* expandNode's catch block: the node is not touched.
ExpandFailed(node) == node

\* Mutant of Expanded: the directories next to the node are marked as loaded too.
ExpandedWithSiblings(h, n, children, built) ==
    [m \in Nodes |->
        IF m = n
        THEN [h[n] EXCEPT !.children = children, !.loaded = TRUE,
                          !.hasChildren = IF Len(children) > 0 THEN "true" ELSE "false"]
        ELSE IF InSeq(m, children) THEN built[m]
        ELSE IF Below(n, m) THEN NoNode
        ELSE IF Parent[m] = Parent[n] /\ h[m].type = "directory"
        THEN [h[m] EXCEPT !.loaded = TRUE]
        ELSE h[m]]

\* expandNode's three assignments to node n: children, loaded, hasChildren.
\* The tree then holds the nodes just built below n and nothing else there.
Expanded(h, n, children, built) ==
    [m \in Nodes |->
        IF m = n
        THEN [h[n] EXCEPT !.children = children, !.loaded = TRUE,
                          !.hasChildren = IF Len(children) > 0 THEN "true" ELSE "false"]
        ELSE IF InSeq(m, children) THEN built[m]
        ELSE IF Below(n, m) THEN NoNode
        ELSE h[m]]

\* lazyTree() has resolved and the caller keeps result.tree.
Adopt(k) ==
    /\ cstate[k] = "resolved"
    /\ cop[k].name = "lazyTree"
    /\ heap[croot[k]].type = "none"
    /\ heap' = tnode[k]
    /\ gen' = [n \in Nodes |-> IF tnode[k][n].type # "none" THEN 1 ELSE 0]
    /\ UNCHANGED <<writes, nExpand, instVars, callVars, semVars, pureVars>>

\* expandNode(node) is called on the node at path n, through a free slot:
\* the guard, then clearInode(), then up to the await of readdir. The
\* caller expands nodes of the tree it holds, and none below a node whose
\* expansion is still running.
CallExpandNode(k, n) ==
    /\ cstate[k] \in {"idle", "resolved", "rejected"}
    /\ heap[n].type # "none"
    /\ \A j \in Calls : cstate[j] = "running" => ~Below(croot[j], n)
    /\ nExpand < MaxExpands
    /\ nExpand' = nExpand + 1
    /\ cop' = [cop EXCEPT ![k] = ExpandNodeOp]
    /\ croot' = [croot EXCEPT ![k] = n]
    /\ tret' = [tret EXCEPT ![k] = [m \in Nodes |-> "none"]]
    /\ dsem' = [dsem EXCEPT ![k] = [m \in Nodes |-> NoSem]]
    /\ acc' = [acc EXCEPT ![k] = ZeroAcc]
    /\ visits' = [visits EXCEPT ![k] = [m \in Nodes |-> 0]]
    /\ tnode' = [tnode EXCEPT ![k] = [m \in Nodes |-> NoNode]]
    /\ io' = [io EXCEPT ![k] = [m \in Nodes |-> NoIo]]
    /\ IF ExpandSkips(heap[n])
       THEN /\ cstate' = [cstate EXCEPT ![k] = "resolved"]
            /\ tpc' = [tpc EXCEPT ![k] = [m \in Nodes |-> "none"]]
            /\ UNCHANGED processedInodes
       ELSE /\ cstate' = [cstate EXCEPT ![k] = "running"]
            /\ tpc' = [tpc EXCEPT ![k] =
                         [m \in Nodes |-> IF m = n THEN "xreaddir" ELSE "none"]]
            /\ processedInodes' = ClearInode(processedInodes)
    /\ UNCHANGED <<fs, given, runs, prev, heap, gen, writes, semVars, pureVars>>

\* expandNode's readdir settles: on failure the catch block and the error
\* policy; on success concurrentMapFiltered starts on the entries.
ExpandReaddirDone(k) ==
    LET n == croot[k]
    IN  /\ cstate[k] = "running"
        /\ tpc[k][n] = "xreaddir"
        /\ io' = [io EXCEPT ![k][n].readdir = @ + 1]
        /\ IF ReaddirFails(n)
           THEN /\ heap' = [heap EXCEPT ![n] = ExpandFailed(@)]
                /\ cstate' = [cstate EXCEPT ![k] =
                                IF HandleError(Options) = "continue"
                                THEN "resolved" ELSE "rejected"]
                /\ tret' = [tret EXCEPT ![k][n] =
                              IF HandleError(Options) = "continue"
                              THEN "null" ELSE HandleError(Options)]
                /\ tpc' = [tpc EXCEPT ![k][n] = "done"]
                /\ UNCHANGED dsem
           ELSE /\ dsem' = [dsem EXCEPT ![k][n] =
                              AcquireAll(SemNew(Options.concurrency), Entries(n))]
                /\ tpc' = [tpc EXCEPT ![k] =
                             [m \in Nodes |->
                                IF m = n THEN "xkids"
                                ELSE IF ~InSeq(m, Entries(n)) THEN @[m]
                                ELSE IF InSeq(m, dsem'[k][n].waiters) THEN "xqueued"
                                ELSE "xgranted"]]
                /\ UNCHANGED <<heap, cstate, tret>>
        /\ UNCHANGED <<instVars, croot, acc, visits, runs, prev, cop, tnode,
                       gen, writes, nExpand, semVars, pureVars>>

\* buildSingleLazyNode(entry) settles with outcome o: concurrentMap's wrapper
\* turns a throw into null and releases its permit, which resumes the first
\* waiter.
ExpandFinish(k, m, o) ==
    LET n == croot[k]
        before == dsem[k][n]
        after == WrapperRelease(before, o)
    IN  /\ tret' = [tret EXCEPT ![k][m] = o]
        /\ dsem' = [dsem EXCEPT ![k][n] = after]
        /\ tpc' = [tpc EXCEPT ![k] =
                     [x \in Nodes |->
                        IF x = m THEN "done"
                        ELSE IF InSeq(x, before.waiters) /\ ~InSeq(x, after.waiters)
                        THEN "xgranted"
                        ELSE @[x]]]

\* An entry's wrapper has its permit: buildSingleLazyNode runs up to its
\* first await. There is no depth test, only the filter.
ExpandStartChild(k, m) ==
    /\ cstate[k] = "running"
    /\ tpc[k][m] = "xgranted"
    /\ IF ShouldIgnorePath(Options.ignores, PathOf(m), Options.includeHidden)
       THEN ExpandFinish(k, m, "null")
       ELSE /\ tpc' = [tpc EXCEPT ![k][m] = "xlstat"]
            /\ UNCHANGED <<tret, dsem>>
    /\ UNCHANGED <<instVars, cstate, croot, acc, visits, runs, prev, cop, tnode, io,
                   lazyVars, semVars, pureVars>>

\* buildSingleLazyNode's lstat settles: error policy, inode check, the node.
ExpandLstatDone(k, m) ==
    /\ cstate[k] = "running"
    /\ tpc[k][m] = "xlstat"
    /\ io' = [io EXCEPT ![k][m].lstat = @ + 1]
    /\ IF m \in fs.statFails
       THEN /\ ExpandFinish(k, m, IF HandleError(Options) = "continue" THEN "null"
                                  ELSE HandleError(Options))
            /\ UNCHANGED <<processedInodes, tnode>>
       ELSE IF Options.inodeCheck /\ CheckInode(processedInodes, Lstat(m))
       THEN /\ ExpandFinish(k, m, "null")
            /\ UNCHANGED <<processedInodes, tnode>>
       ELSE /\ processedInodes' =
                  IF Options.inodeCheck
                  THEN CheckInodeRecord(processedInodes, Lstat(m))
                  ELSE processedInodes
            /\ tnode' = [tnode EXCEPT ![k][m] =
                           SingleLazyNode(Lstat(m), ChildDepth(heap[croot[k]]),
                                          Options.includeLink)]
            /\ ExpandFinish(k, m, "returned")
    /\ UNCHANGED <<fs, given, cstate, croot, acc, visits, runs, prev, cop,
                   lazyVars, semVars, pureVars>>

\* Promise.all of concurrentMapFiltered resolves: the three assignments to
\* the node, and expandNode resolves.
ExpandKidsDone(k) ==
    LET n == croot[k]
    IN  /\ cstate[k] = "running"
        /\ tpc[k][n] = "xkids"
        /\ \A m \in Nodes : InSeq(m, Entries(n)) => tpc[k][m] = "done"
        /\ heap' = Expanded(heap, n, Children(k, n), tnode[k])
        /\ gen' = [m \in Nodes |-> IF InSeq(m, Children(k, n)) THEN gen[m] + 1 ELSE gen[m]]
        /\ writes' = [writes EXCEPT ![n] = @ + 1]
        /\ cstate' = [cstate EXCEPT ![k] = "resolved"]
        /\ tpc' = [tpc EXCEPT ![k][n] = "done"]
        /\ tret' = [tret EXCEPT ![k][n] = "returned"]
        /\ UNCHANGED <<instVars, croot, dsem, acc, visits, runs, prev, cop, tnode, io,
                       nExpand, semVars, pureVars>>

\* The file systems a lazy tree is expanded on: deep nesting, two
\* directories next to each other, entries of every kind with a hidden one,
\* hard links next to each other, a listing and an lstat that fail.
ExpandFileSystems ==
    { ChainFs, ForkFs, KindsFs({5}),
      MkFs(<<1, 2, 3, 4, 5, 5>>, {}, {}),
      MkFs(<<1, 2, 3, 4, 5, 6>>, {}, {2}),
      MkFs(<<1, 2, 3, 4, 5, 6>>, {5}, {}) }

\* One instance: a tree() call, or a lazyTree() call whose tree the caller
\* then expands node by node, with calls that may overlap.
ExpandInit ==
    /\ SemIdle
    /\ CallsIdle
    /\ LazyIdle
    /\ PureIdle
    /\ processedInodes = {}
    /\ croot = [k \in Calls |-> 1]
    /\ fs \in ExpandFileSystems
    /\ \E d \in {0, 1}, pre \in BOOLEAN :
          cop \in {[k \in Calls |-> IF k = 1 THEN LazyTreeOp({d}, pre) ELSE SizeOp],
                   [k \in Calls |-> IF k = 1 THEN TreeOp ELSE SizeOp]}
    /\ \E c \in 1..MaxConcurrency, ic \in BOOLEAN, ih \in BOOLEAN,
          oe \in {"omitted", "stop"} :
          /\ given = [DefaultOptions EXCEPT !.concurrency = c, !.inodeCheck = ic,
                         !.includeHidden = ih, !.onError = oe]
          /\ ih \/ fs.hidden # {}
          /\ oe = "omitted" \/ fs.statFails \cup fs.dirFails # {}
          /\ ic \/ cop[1].name = "lazyTree"

ExpandNext ==
    \/ CallLazyTree(1)
    \/ CallTree(1)
    \/ \E n \in Nodes : StartChild(1, n)
    \/ \E n \in Nodes : LstatDone(1, n)
    \/ \E n \in Nodes : ReaddirDone(1, n)
    \/ \E n \in Nodes : KidsDone(1, n)
    \/ \E n \in Nodes : PrecheckDone(1, n)
    \/ Adopt(1)
    \/ \E k \in Calls, n \in Nodes : CallExpandNode(k, n)
    \/ \E k \in Calls : ExpandReaddirDone(k)
    \/ \E k \in Calls, m \in Nodes : ExpandStartChild(k, m)
    \/ \E k \in Calls, m \in Nodes : ExpandLstatDone(k, m)
    \/ \E k \in Calls : ExpandKidsDone(k)

\* A lazy tree and its expansion.
ExpandSpec == ExpandInit /\ [][ExpandNext]_vars

\* ------------------------------------------- BaseScene: the inode helpers

\* The device and inode numbers of the stats objects handed to the helpers.
Devs == {1, 11}
Inos == {1, 2, 12}

\* A stats object of that identity; objects of one identity differ in size.
StatsOf(dev, ino, size) == [dev |-> dev, ino |-> ino, size |-> size, kind |-> "file"]

\* A fresh BaseScene; no traversal is running.
InodeInit ==
    /\ SemIdle
    /\ CallsIdle
    /\ LazyIdle
    /\ PureIdle
    /\ fs = MkFs(<<1, 2, 3, 4, 5, 6>>, {}, {})
    /\ given = DefaultOptions
    /\ croot = [k \in Calls |-> 1]
    /\ cop = [k \in Calls |-> SizeOp]
    /\ processedInodes = {}

\* checkInode(stats)
CheckInodeCall(stats) ==
    /\ ret' = [fn |-> "checkInode", stats |-> stats,
               result |-> CheckInode(processedInodes, stats)]
    /\ processedInodes' = CheckInodeRecord(processedInodes, stats)
    /\ hist' = hist \cup {<<stats.dev, stats.ino>>}
    /\ UNCHANGED <<fs, given, callVars, lazyVars, semVars>>

\* hasInode(stats)
HasInodeCall(stats) ==
    /\ ret' = [fn |-> "hasInode", stats |-> stats,
               result |-> HasInode(processedInodes, stats)]
    /\ UNCHANGED <<hist, instVars, callVars, lazyVars, semVars>>

\* addInode(stats)
AddInodeCall(stats) ==
    /\ ret' = [fn |-> "addInode", stats |-> stats, result |-> FALSE]
    /\ processedInodes' = AddInode(processedInodes, stats)
    /\ hist' = hist \cup {<<stats.dev, stats.ino>>}
    /\ UNCHANGED <<fs, given, callVars, lazyVars, semVars>>

\* clearInode()
ClearInodeCall ==
    /\ ret' = [fn |-> "clearInode"]
    /\ processedInodes' = ClearInode(processedInodes)
    /\ hist' = {}
    /\ UNCHANGED <<fs, given, callVars, lazyVars, semVars>>

InodeNext ==
    \/ \E d \in Devs, i \in Inos, sz \in {0, 1} :
          \/ CheckInodeCall(StatsOf(d, i, sz))
          \/ HasInodeCall(StatsOf(d, i, sz))
          \/ AddInodeCall(StatsOf(d, i, sz))
    \/ ClearInodeCall

\* The inode helpers of one BaseScene called in any order; `hist` holds the
\* identities handed to checkInode or addInode since the last clearInode.
InodeSpec == InodeInit /\ [][InodeNext]_vars

\* ------------------------------------------ BaseScene.shouldIgnorePath

\* The characters the paths handed to shouldIgnorePath are made of.
Chars == {".", "/", "a"}

\* The strings of at most n characters.
Strings(n) == UNION {[1..k -> Chars] : k \in 0..n}

\* The paths: every short string, and longer ones with a directory part.
Paths ==
    Strings(MaxPathLen)
        \cup { <<"a", "/", ".", "a">>, <<".", "a", "/", "a">>, <<"a", "/", ".", ".">>,
               <<"a", "/", ".", "a", "/">>, <<"a", "a", "/", "a">> }

\* The `ignores` options: no pattern, /a/, /a$/ and /\.a/ with and without
\* the g flag, and lists of two patterns.
IgnoreLists ==
    { <<>>,
      <<RegExp(<<"a">>, FALSE, FALSE)>>,
      <<RegExp(<<"a">>, FALSE, TRUE)>>,
      <<RegExp(<<"a">>, TRUE, FALSE)>>,
      <<RegExp(<<"a">>, TRUE, TRUE)>>,
      <<RegExp(<<".", "a">>, FALSE, FALSE)>>,
      <<RegExp(<<".", "a">>, FALSE, FALSE), RegExp(<<"a">>, TRUE, FALSE)>>,
      <<RegExp(<<".", "a">>, FALSE, TRUE), RegExp(<<"a">>, TRUE, TRUE)>> }

\* An instance constructed with a list of patterns as its `ignores`.
FilterInit ==
    /\ SemIdle
    /\ CallsIdle
    /\ LazyIdle
    /\ PureIdle
    /\ fs = MkFs(<<1, 2, 3, 4, 5, 6>>, {}, {})
    /\ croot = [k \in Calls |-> 1]
    /\ cop = [k \in Calls |-> SizeOp]
    /\ processedInodes = {}
    /\ \E list \in IgnoreLists : given = [DefaultOptions EXCEPT !.ignores = list]

\* shouldIgnorePath(this.options.ignores, itemPath, includeHidden)
ShouldIgnorePathCall(itemPath, includeHidden) ==
    /\ ret' = [fn |-> "shouldIgnorePath", path |-> itemPath,
               includeHidden |-> includeHidden,
               result |-> ShouldIgnorePath(given.ignores, itemPath, includeHidden)]
    /\ given' = [given EXCEPT !.ignores = IgnoresAfter(@, itemPath, includeHidden)]
    /\ UNCHANGED <<hist, fs, processedInodes, callVars, lazyVars, semVars>>

FilterNext == \E itemPath \in Paths, includeHidden \in BOOLEAN :
                  ShouldIgnorePathCall(itemPath, includeHidden)

\* shouldIgnorePath called again and again with the instance's patterns.
FilterSpec == FilterInit /\ [][FilterNext]_vars

\* ------------------------------------------- size(): the running total

\* A bigint is held in two binary limbs: its value is hi * 2^27 + lo.
Limb == 2 ^ 27

BigInt(hi, lo) == [hi |-> hi, lo |-> lo]

\* x + y on bigints.
BigAdd(x, y) ==
    [hi |-> x.hi + y.hi + ((x.lo + y.lo) \div Limb), lo |-> (x.lo + y.lo) % Limb]

\* x.toString() of a bigint: its decimal digits, by repeated division by 10.
RECURSIVE BigIntToString(_)
BigIntToString(x) ==
    IF x.hi = 0 /\ x.lo < 10 THEN <<Digit[x.lo + 1]>>
    ELSE LET r == (x.hi % 10) * Limb + x.lo
         IN  BigIntToString(BigInt(x.hi \div 10, r \div 10)) \o <<Digit[(r % 10) + 1]>>

\* The value of a digit character.
DigitValue(c) == CHOOSE d \in 0..9 : Digit[d + 1] = c

\* The string without its last character.
Front(q) == SubSeq(q, 1, Len(q) - 1)

\* BigNumber addition of two non-negative integers given by their decimal
\* digits: digit by digit from the right, with a carry.
RECURSIVE PlusCarry(_, _, _)
PlusCarry(a, b, carry) ==
    IF a = <<>> /\ b = <<>>
    THEN (IF carry = 0 THEN <<>> ELSE <<Digit[carry + 1]>>)
    ELSE LET da == IF a = <<>> THEN 0 ELSE DigitValue(a[Len(a)])
             db == IF b = <<>> THEN 0 ELSE DigitValue(b[Len(b)])
             sum == da + db + carry
         IN  PlusCarry(IF a = <<>> THEN a ELSE Front(a),
                       IF b = <<>> THEN b ELSE Front(b),
                       sum \div 10) \o <<Digit[(sum % 10) + 1]>>

\* Mutant of Plus: the sum keeps 16 significant digits, as a double does.
PlusRounded(a, b) ==
    LET sum == PlusCarry(a, b, 0)
    IN  [i \in 1..Len(sum) |-> IF i <= 16 THEN sum[i] ELSE "0"]

\* totalSize.plus(str)
Plus(a, b) == PlusCarry(a, b, 0)

\* The sizes lstat reports: small ones, and sizes around and above 2^53.
BigSizes ==
    { BigInt(0, 0), BigInt(0, 7), BigInt(0, 4096),
      BigInt(2 ^ 26 - 1, 2 ^ 27 - 1), BigInt(2 ^ 26, 0), BigInt(2 ^ 26, 1),
      BigInt(2 ^ 26 + 5, 12345) }

\* calculateSizeNodeJs starts: totalSize = new BigNumber(0). `hist` keeps
\* the sum of the contributing sizes as a bigint and the number of entries.
SumInit ==
    /\ SemIdle
    /\ CallsIdle
    /\ LazyIdle
    /\ fs = MkFs(<<1, 2, 3, 4, 5, 6>>, {}, {})
    /\ croot = [k \in Calls |-> 1]
    /\ cop = [k \in Calls |-> SizeOp]
    /\ processedInodes = {}
    /\ \E il \in BOOLEAN : given = [DefaultOptions EXCEPT !.includeLink = il]
    /\ ret = [fn |-> "size", totalSize |-> <<"0">>]
    /\ hist = [sum |-> BigInt(0, 0), entries |-> 0]

\* size()'s nodeCallback runs for an entry whose lstat reported `size`:
\* totalSize = totalSize.plus(item.size.toString()), unless the entry is a
\* symbolic link and links are not included.
SizeCallback(size, isSymbolicLink) ==
    /\ hist.entries < MaxEntries
    /\ IF isSymbolicLink /\ ~Options.includeLink
       THEN /\ ret' = ret
            /\ hist' = [hist EXCEPT !.entries = @ + 1]
       ELSE /\ ret' = [ret EXCEPT !.totalSize = Plus(@, BigIntToString(size))]
            /\ hist' = [sum |-> BigAdd(hist.sum, size), entries |-> hist.entries + 1]
    /\ UNCHANGED <<instVars, callVars, lazyVars, semVars>>

SumNext == \E size \in BigSizes, isSymbolicLink \in BOOLEAN :
               SizeCallback(size, isSymbolicLink)

\* The fold of size() over entries of any size.
SumSpec == SumInit /\ [][SumNext]_vars

\* ------------------------------------------------ properties: the semaphore

\* The callers whose acquire() has returned and who have not released yet.
Outstanding == {c \in Clients : cpc[c] = "holding"}

IsPrefix(p, q) == Len(p) <= Len(q) /\ p = SubSeq(q, 1, Len(p))

\* C1: with matched acquire()/release() calls at most `limit` acquire() calls
\* are outstanding in every state, and no acquire() beyond the first `limit`
\* returns before a release() has been called for it.
C1_AtMostNOutstanding ==
    nSpare = 0 =>
        /\ Cardinality(Outstanding) <= limit
        /\ nGranted <= limit + nReleased

\* C1 witness: all permits are held after a hand-off, and a further caller
\* is still suspended.
C1_Witness ==
    /\ nSpare = 0
    /\ limit >= 1
    /\ Cardinality(Outstanding) = limit
    /\ Len(resumed) >= 1
    /\ Len(sem.waiters) >= 1

\* C2: with matched calls, available permits plus permits held equals the
\* constructor's limit in every state.
C2_TokensConserved ==
    nSpare = 0 => sem.available + Cardinality(Outstanding) = limit

\* C3: on a semaphore with at least one permit, every acquire() call
\* eventually returns, provided every holder eventually releases.
C3_NoStarvation ==
    \A c \in Clients : (limit >= 1 /\ cpc[c] = "waiting") ~> (cpc[c] = "holding")

\* C4: a release() made while waiters are queued resumes exactly the waiter
\* that called acquire() earliest, does not increase the available count
\* and resumes no other waiter; waiters resume in the order they called.
C4_WaitersServedFifo ==
    [][(nReleased' = nReleased + 1 /\ Len(sem.waiters) > 0) =>
          /\ cpc'[Head(sem.waiters)] = "holding"
          /\ Head(sem.waiters) = suspended[Len(resumed) + 1]
          /\ sem'.waiters = Tail(sem.waiters)
          /\ sem'.available <= sem.available
          /\ \A d \in Clients :
                (cpc[d] = "waiting" /\ d # Head(sem.waiters)) => cpc'[d] = "waiting"
          /\ IsPrefix(resumed', suspended')]_vars

\* C4 witness: two queued callers have been resumed one after the other
\* while a third call was queued behind them.
C4_Witness ==
    /\ Len(resumed) >= 2
    /\ Len(suspended) >= 3

\* C5: on a semaphore built with limit 0 no acquire() resolves before a
\* release() is called, and the first release() resolves the earliest
\* pending acquire().
C5_ZeroLimitLegal ==
    /\ [](limit = 0 => nGranted <= nReleased)
    /\ [][(limit = 0 /\ nReleased = 0 /\ nReleased' = 1 /\ Len(suspended) > 0) =>
             (cpc'[suspended[1]] = "holding" /\ resumed' = <<suspended[1]>>)]_vars

\* C5 witness: limit 0, two acquire() calls pending, and one release() has
\* resolved the first of them.
C5_Witness ==
    /\ limit = 0
    /\ nReleased = 1
    /\ Len(suspended) >= 2
    /\ resumed = <<suspended[1]>>
    /\ cpc[suspended[2]] = "waiting"

\* ------------------------------------------------ properties: the traversal

Settled(k) == cstate[k] \in {"resolved", "rejected"}

\* The paths at or below path r.
RECURSIVE IsUnder(_, _)
IsUnder(n, r) == n = r \/ (Parent[n] # 0 /\ IsUnder(Parent[n], r))

Subtree(r) == {n \in Nodes : IsUnder(n, r)}

RECURSIVE SumOver(_, _)
SumOver(S, f) ==
    IF S = {} THEN 0
    ELSE LET x == CHOOSE y \in S : TRUE IN f[x] + SumOver(S \ {x}, f)

\* The entries that hold a permit and whose traversal has not finished.
InFlight(k) ==
    {n \in Nodes : n # croot[k] /\ tpc[k][n] \in {"granted", "lstat", "readdir", "kids"}}

\* C6: during one size() call the number of child traversals in flight,
\* counted over all directories and depths, never exceeds `concurrency`.
C6_GlobalInFlightBound ==
    \A k \in Calls : Cardinality(InFlight(k)) <= Options.concurrency

\* The paths of the call's tree that share the identity of path n.
LinksOf(k, n) ==
    {m \in Subtree(croot[k]) : GetInodeKey(Lstat(m)) = GetInodeKey(Lstat(n))}

\* One path per identity.
OnePerIdentity(k) ==
    {n \in Subtree(croot[k]) : \A m \in LinksOf(k, n) : n <= m}

\* C7: on a tree whose calls all succeed, a resolved size() with inodeCheck
\* has counted every identity exactly once, whichever link was reached
\* first, and its total is the sum over the identities; without inodeCheck
\* every link is counted, and the total is the sum over the paths, which is
\* never smaller.
C7_HardLinksCountedOnce ==
    \A k \in Calls :
        (cstate[k] = "resolved" /\ fs \in SoundFileSystems) =>
            LET tree == Subtree(croot[k]) IN
            /\ acc[k].size <= SumOver(tree, fs.size)
            /\ IF Options.inodeCheck
               THEN /\ \A n \in tree : SumOver(LinksOf(k, n), visits[k]) = 1
                    /\ acc[k].size = SumOver(OnePerIdentity(k), fs.size)
                    /\ acc[k].fileCount + acc[k].directoryCount + 1
                          = Cardinality(OnePerIdentity(k))
               ELSE /\ \A n \in tree : visits[k][n] = 1
                    /\ acc[k].size = SumOver(tree, fs.size)
                    /\ acc[k].fileCount + acc[k].directoryCount + 1 = Cardinality(tree)

\* C7 witness: three links to one file, two traversals at a time, and the
\* link counted is the last one in listing order.
C7_Witness ==
    /\ cstate[1] = "resolved"
    /\ croot[1] = 1
    /\ Options.inodeCheck
    /\ Options.concurrency = 2
    /\ fs = MkFs(<<1, 2, 3, 4, 3, 3>>, {}, {})
    /\ visits[1][6] = 1
    /\ visits[1][3] = 0

\* What a size() call on path r returns on a tree without hard links,
\* failures or filtered entries.
SoloResult(r) ==
    [ size |-> SumOver(Subtree(r), fs.size),
      fileCount |-> Cardinality({n \in Subtree(r) : fs.kind[n] = "file"}),
      directoryCount |-> Cardinality({n \in Subtree(r) : fs.kind[n] = "directory" /\ n # r}),
      linkCount |-> Cardinality({n \in Subtree(r) : fs.kind[n] = "link"}) ]

\* C8: calls on one instance that overlap in time do not share inode state:
\* each resolves with the result it returns when run alone.
C8_OverlappingCallsIndependent ==
    \A k \in Calls : cstate[k] = "resolved" => acc[k] = SoloResult(croot[k])

C10_IgnoreErrorsDecides ==
    \A k \in Calls :
        (Settled(k) /\ given.onError = "omitted"
            /\ fs.statFails \cap Subtree(croot[k]) # {}) =>
            IF given.ignoreErrors
            THEN cstate[k] = "resolved" /\ \A n \in fs.statFails : visits[k][n] = 0
            ELSE cstate[k] = "rejected"

\* ------------------------------------- properties: errors, depth and kinds

\* The paths whose lstat or readdir has failed in call k.
Failed(k) ==
    {n \in Nodes : \/ n \in fs.statFails /\ io[k][n].lstat > 0
                   \/ n \in fs.dirFails /\ io[k][n].readdir > 0}

\* C11: when onError returns false for a failing entry, be it the root or
\* an entry below it, an lstat or a readdir failure, the size() or tree()
\* call rejects with the stopped-by-caller error.
C11_StopAbortsCall ==
    \A k \in Calls :
        (Settled(k) /\ Options.onError = "stop" /\ Failed(k) # {}) =>
            (cstate[k] = "rejected" /\ tret[k][croot[k]] = "stopped")

\* The paths whose nodeCallback has run in call k.
Visited(k) == {n \in Nodes : visits[k][n] > 0}

\* The directories above path n, up to the root of the file system.
RECURSIVE Ancestors(_)
Ancestors(n) == IF Parent[n] = 0 THEN {} ELSE {Parent[n]} \cup Ancestors(Parent[n])

\* The paths a call on a tree without hard links and filtered entries must
\* process: those whose lstat succeeds below directories that were listed,
\* a directory whose listing fails only if the policy continues.
Surviving(k) ==
    {n \in Subtree(croot[k]) :
        /\ n \notin fs.statFails
        /\ Ancestors(n) \cap Subtree(croot[k]) \cap (fs.statFails \cup fs.dirFails) = {}
        /\ n \in fs.dirFails => HandleError(Options) = "continue"}

\* The other entries of the directory that lists n.
Siblings(n) == {m \in Nodes : m # n /\ InSeq(m, Entries(Parent[n]))}

C13_UnreadableDirectoryKept ==
    \A k \in Calls : \A n \in fs.dirFails :
        (io[k][n].readdir > 0 /\ tpc[k][n] = "done"
            /\ HandleError(Options) = "continue") =>
            /\ visits[k][n] = 1
            /\ tret[k][n] = "returned"
            /\ \A m \in Nodes : InSeq(m, Entries(n)) => tpc[k][m] = "none"
            /\ cop[k].name = "tree" =>
                   /\ tnode[k][n].type = "directory"
                   /\ tnode[k][n].withChildren
                   /\ tnode[k][n].children = <<>>
                   /\ (n # croot[k] /\ tpc[k][Parent[n]] = "done") =>
                          InSeq(n, tnode[k][Parent[n]].children)
            /\ cstate[k] = "resolved" =>
                   acc[k].directoryCount =
                      Cardinality({m \in Surviving(k) :
                                     fs.kind[m] = "directory" /\ m # croot[k]})
            /\ (cstate[k] = "resolved" /\ n # croot[k]) => acc[k].directoryCount >= 1
            /\ (cstate[k] = "resolved" /\ n = croot[k]) => acc[k].directoryCount = 0

\* C13 witness: tree() with ignoreErrors and no callback has resolved after
\* the listing of root/a failed; root/a is a childless directory node
\* among the root's children.
C13_Witness ==
    /\ cstate[1] = "resolved"
    /\ cop[1].name = "tree"
    /\ fs.dirFails = {2}
    /\ Options.onError = "undefined"
    /\ Options.ignoreErrors
    /\ tnode[1][2].type = "directory"
    /\ tnode[1][2].children = <<>>
    /\ tnode[1][1].children = <<2, 3, 4>>
    /\ acc[1].directoryCount = 1

\* The paths a call on a tree whose calls all succeed and that has no hard
\* links must process: those within the depth limit that are not filtered
\* and lie below no filtered directory.
Reach(k) ==
    {n \in Subtree(croot[k]) :
        /\ Depth(croot[k], n) <= Options.maxDepth
        /\ \A m \in ({n} \cup Ancestors(n)) \cap Subtree(croot[k]) :
               ~ShouldIgnorePath(Options.ignores, PathOf(m), Options.includeHidden)}

\* The counters and the total that processing the paths of S gives.
Tally(S) ==
    [ size |-> SumOver({n \in S : fs.kind[n] # "link" \/ Options.includeLink}, fs.size),
      fileCount |-> Cardinality({n \in S : fs.kind[n] = "file"}),
      directoryCount |-> Cardinality({n \in S : fs.kind[n] = "directory"}),
      linkCount |-> Cardinality({n \in S : fs.kind[n] = "link"}) ]

\* What size() and tree() return for the counters when they process S.
Expected(k, S) ==
    [ Tally(S \ {croot[k]}) EXCEPT
        !.size = IF cop[k].name = "size" THEN Tally(S).size ELSE 0 ]

C15_MaxDepthCountsLevelFiles ==
    \A k \in Calls :
        (fs = ChainFs /\ cop[k].name = "size" /\ cstate[k] = "resolved"
            /\ Options.maxDepth = 2) =>
            (acc[k].fileCount = 2 /\ acc[k].directoryCount = 2)

\* C16: nodeCallback on a symbolic link adds exactly one to linkCount and
\* nothing to fileCount or directoryCount; the link's lstat size is added to
\* the total of size() iff includeLink is true (tree() gives the node a size
\* iff includeLink is true); and a symbolic link is never listed and no
\* child traversal is started for it, whatever its target is.
C16_SymbolicLinkAccounting ==
    /\ [][\A k \in Calls : \A n \in Nodes :
             (fs.kind[n] = "link" /\ visits'[k][n] = visits[k][n] + 1) =>
                 /\ acc'[k].linkCount = acc[k].linkCount + 1
                 /\ acc'[k].fileCount = acc[k].fileCount
                 /\ acc'[k].directoryCount = acc[k].directoryCount
                 /\ cop[k].name = "size" =>
                        acc'[k].size =
                           acc[k].size + (IF Options.includeLink THEN fs.size[n] ELSE 0)
                 /\ cop[k].name = "tree" =>
                        /\ tnode'[k][n].type = "link"
                        /\ tnode'[k][n].hasSize = Options.includeLink
                        /\ ~tnode'[k][n].withChildren]_vars
    /\ [](\A k \in Calls : \A n \in Nodes :
             fs.kind[n] = "link" =>
                 /\ io[k][n].readdir = 0
                 /\ tpc[k][n] \notin {"readdir", "kids"}
                 /\ dsem[k][n] = NoSem
                 /\ visits[k][n] <= 1)

\* C16 witness: size() without includeLink has resolved on the tree where
\* root/b links to a directory and root/a/y to a file: both links are
\* counted, neither was listed, and the total is that of the other entries.
C16_Witness ==
    /\ fs = KindsFs({})
    /\ cop[1].name = "size"
    /\ ~Options.includeLink
    /\ cstate[1] = "resolved"
    /\ fs.target[3] = "directory"
    /\ visits[1][3] = 1
    /\ visits[1][6] = 1
    /\ io[1][3].readdir = 0
    /\ acc[1].linkCount = 2
    /\ acc[1].size = fs.size[1] + fs.size[2] + fs.size[4] + fs.size[5]

\* The paths at or below a path whose final component starts with a dot.
UnderHidden(k) ==
    {n \in Subtree(croot[k]) : ({n} \cup Ancestors(n)) \cap fs.hidden # {}}

\* The paths of the call's tree within the depth limit.
WithinDepth(k) == {n \in Subtree(croot[k]) : Depth(croot[k], n) <= Options.maxDepth}

\* C17: with includeHidden = false an entry whose final component starts
\* with a dot is skipped before it is stat'ed: it is never stat'ed, listed
\* or handed to nodeCallback, no traversal is started for anything below
\* it, and the result is that of the other entries; with includeHidden =
\* true it is processed and counted like any other entry.
C17_HiddenBoundary ==
    \A k \in Calls :
        fs \in FoldFileSystems =>
            /\ ~Options.includeHidden =>
                   /\ \A n \in UnderHidden(k) :
                          /\ io[k][n] = NoIo
                          /\ visits[k][n] = 0
                          /\ n \notin fs.hidden => tpc[k][n] = "none"
                   /\ cstate[k] = "resolved" =>
                          /\ Visited(k) = WithinDepth(k) \ UnderHidden(k)
                          /\ acc[k] = Expected(k, WithinDepth(k) \ UnderHidden(k))
            /\ (Options.includeHidden /\ cstate[k] = "resolved") =>
                   /\ \A n \in fs.hidden \cap WithinDepth(k) :
                          visits[k][n] = 1 /\ io[k][n].lstat = 1
                   /\ Visited(k) = WithinDepth(k)
                   /\ acc[k] = Expected(k, WithinDepth(k))

\* C17 witness: size() with includeHidden = false has resolved on the tree
\* whose only regular file and one of whose two links are hidden: the
\* hidden file's traversal returned before lstat, and fileCount = 0 and
\* linkCount = 1.
C17_Witness ==
    /\ fs = KindsFs({3, 5})
    /\ ~Options.includeHidden
    /\ Options.maxDepth = MAX_SAFE_INTEGER
    /\ cop[1].name = "size"
    /\ cstate[1] = "resolved"
    /\ tpc[1][5] = "done"
    /\ io[1][5] = NoIo
    /\ acc[1].fileCount = 0
    /\ acc[1].linkCount = 1

\* C18: directoryCount excludes the root: whatever the tree, the options
\* and the failures, the directoryCount that size() and tree() resolve with
\* is the number of directories handed to nodeCallback other than the root
\* path; an empty root gives 0 and a root with one empty subdirectory 1.
C18_DirectoryCountExcludesRoot ==
    \A k \in Calls :
        cstate[k] = "resolved" =>
            /\ acc[k].directoryCount =
                   Cardinality({n \in Visited(k) :
                                  fs.kind[n] = "directory" /\ n # croot[k]})
            /\ fs = EmptyFs => acc[k].directoryCount = 0
            /\ (fs = OneDirFs /\ Options.maxDepth >= 1) => acc[k].directoryCount = 1

\* C18 witness: size() has resolved on a root with one empty subdirectory;
\* both directories were handed to nodeCallback and directoryCount = 1.
C18_Witness ==
    /\ fs = OneDirFs
    /\ cop[1].name = "size"
    /\ cstate[1] = "resolved"
    /\ visits[1][1] = 1
    /\ visits[1][2] = 1
    /\ acc[1].directoryCount = 1

\* C19: for an empty root directory size() resolves with size = 0,
\* fileCount = 0, directoryCount = 0 and linkCount = 0.
C19_EmptyRootIsZero ==
    \A k \in Calls :
        (fs = EmptyFs /\ cop[k].name = "size" /\ cstate[k] = "resolved") =>
            acc[k] = ZeroAcc

\* ------------------------------------------------- properties: lazy trees

\* The paths lazyTree() must build a node for on a tree whose calls all
\* succeed: those within the initial depth that are not filtered and lie
\* below no filtered directory.
LazyReach(k) ==
    {n \in Subtree(croot[k]) :
        /\ Depth(croot[k], n) <= InitialDepth(cop[k])
        /\ (Options.includeHidden \/ n \notin UnderHidden(k))}

\* C20: the tree that lazyTree(root, initialDepth = d) returns on a tree
\* whose calls all succeed has a node for a path iff the path is not
\* filtered and its depth is at most d; every directory node at depth < d
\* has loaded = true and its non-filtered entries, in listing order, as
\* children; every directory node at depth = d has loaded = false and an
\* empty children list; and every node carries its own depth.
C20_LazyTreeInitialDepth ==
    \A k \in Calls :
        (cop[k].name = "lazyTree" /\ cstate[k] = "resolved"
            /\ fs.statFails = {} /\ fs.dirFails = {}) =>
            /\ tnode[k][croot[k]].type # "none"
            /\ \A n \in Nodes :
                   /\ tnode[k][n].type # "none" <=> n \in LazyReach(k)
                   /\ n \in LazyReach(k) =>
                          /\ tnode[k][n].depth = Depth(croot[k], n)
                          /\ tnode[k][n].depth <= InitialDepth(cop[k])
                          /\ tnode[k][n].type = NodeType(Lstat(n))
                   /\ (n \in LazyReach(k) /\ fs.kind[n] = "directory"
                          /\ Depth(croot[k], n) < InitialDepth(cop[k])) =>
                          /\ tnode[k][n].loaded
                          /\ tnode[k][n].children =
                                 SelectSeq(Entries(n), LAMBDA m : m \in LazyReach(k))
                   /\ (n \in LazyReach(k) /\ fs.kind[n] = "directory"
                          /\ Depth(croot[k], n) = InitialDepth(cop[k])) =>
                          /\ ~tnode[k][n].loaded
                          /\ tnode[k][n].withChildren
                          /\ tnode[k][n].children = <<>>

\* C20 witness: lazyTree(root, {initialDepth: 1}) has resolved on the
\* chain: the root is loaded with level1 as its only child, level1 is an
\* unloaded directory without children, and nothing below it has a node.
C20_Witness ==
    /\ fs = ChainFs
    /\ cop[1] = LazyTreeOp({1}, FALSE)
    /\ cstate[1] = "resolved"
    /\ tnode[1][1].loaded
    /\ tnode[1][1].children = <<2>>
    /\ tnode[1][2].type = "directory"
    /\ ~tnode[1][2].loaded
    /\ tnode[1][2].children = <<>>
    /\ tnode[1][3] = NoNode
    /\ tnode[1][4] = NoNode

\* ------------------------------------------------- properties: expandNode

\* C21: expandNode on a node that is loaded, or is not a directory, is a
\* no-op: the call resolves at once without any lstat or readdir, and the
\* tree (loaded, children, hasChildren of every node) and the inode set are
\* what they were.
C21_ExpandNoOp ==
    [][\A k \in Calls, n \in Nodes :
          (CallExpandNode(k, n) /\ (heap[n].type # "directory" \/ heap[n].loaded)) =>
              /\ cstate'[k] = "resolved"
              /\ io'[k] = [m \in Nodes |-> NoIo]
              /\ tpc'[k] = [m \in Nodes |-> "none"]
              /\ heap' = heap
              /\ processedInodes' = processedInodes]_vars

\* C21 witness: expandNode has returned at once on a loaded directory while
\* the inode set still holds what the build recorded.
C21_Witness ==
    \E k \in Calls :
        /\ cop[k] = ExpandNodeOp
        /\ cstate[k] = "resolved"
        /\ tpc[k][croot[k]] = "none"
        /\ heap[croot[k]].type = "directory"
        /\ heap[croot[k]].loaded
        /\ processedInodes # {}

\* The entries of directory n that buildSingleLazyNode can make a node of:
\* not hidden while hidden entries are excluded, and with an lstat that
\* succeeds.
Passing(n) ==
    {m \in Nodes : /\ InSeq(m, Entries(n))
                   /\ ~(~Options.includeHidden /\ m \in fs.hidden)
                   /\ m \notin fs.statFails}

\* The members of a sequence of paths.
Range(q) == {q[i] : i \in 1..Len(q)}

\* expandNode call k completes on node n, having run without another
\* expansion beside it.
ExpandsAlone(k, n) ==
    /\ ExpandKidsDone(k)
    /\ croot[k] = n
    /\ writes[n] = 0
    /\ \A j \in Calls \ {k} : cstate[j] # "running"

\* C22: expandNode on an unloaded directory whose listing succeeds reads
\* exactly one level. Afterwards the node has loaded = true and
\* hasChildren = (children non-empty); its children are, in listing order,
\* one node per entry that passes the filter and whose lstat succeeds (one
\* per inode when the inode check is on), each at depth node.depth + 1 and
\* of the entry's type; a directory child is unloaded with an empty children
\* list and hasChildren undefined. The call has made one readdir, on the
\* node, and at most one lstat per entry.
C22_ExpandOneLevel ==
    [][\A k \in Calls, n \in Nodes :
          ExpandsAlone(k, n) =>
              LET kids == heap'[n].children
              IN  /\ heap'[n].loaded
                  /\ heap'[n].hasChildren = (IF kids # <<>> THEN "true" ELSE "false")
                  /\ kids = SelectSeq(Entries(n), LAMBDA m : m \in Range(kids))
                  /\ Range(kids) \subseteq Passing(n)
                  /\ \A m \in Passing(n) :
                         \/ m \in Range(kids)
                         \/ /\ Options.inodeCheck
                            /\ \E x \in Range(kids) : GetInodeKey(Lstat(x)) = GetInodeKey(Lstat(m))
                  /\ Options.inodeCheck =>
                         \A x, y \in Range(kids) :
                             GetInodeKey(Lstat(x)) = GetInodeKey(Lstat(y)) => x = y
                  /\ \A m \in Range(kids) :
                         /\ heap'[m].depth = heap[n].depth + 1
                         /\ heap'[m].type = NodeType(Lstat(m))
                         /\ heap'[m].children = <<>>
                         /\ heap'[m].hasChildren = "undefined"
                         /\ heap'[m].loaded = (fs.kind[m] # "directory")
                  /\ \A m \in Nodes :
                         /\ io[k][m].readdir = (IF m = n THEN 1 ELSE 0)
                         /\ io[k][m].lstat <= (IF InSeq(m, Entries(n)) THEN 1 ELSE 0)]_vars

\* C22 witness: expandNode has completed on root/a, one level below the
\* root: root/a is loaded with both its entries as children at depth 2, and
\* nothing was read below them.
C22_Witness ==
    /\ fs = ForkFs
    /\ writes[2] = 1
    /\ heap[2].loaded
    /\ heap[2].children = <<5, 6>>
    /\ heap[2].hasChildren = "true"
    /\ heap[5].depth = 2
    /\ heap[3].type = "directory"
    /\ ~heap[3].loaded

\* expandNode call k has settled after its readdir failed.
ExpandHasFailed(k) ==
    /\ cop[k] = ExpandNodeOp
    /\ cstate[k] \in {"resolved", "rejected"}
    /\ io[k][croot[k]].readdir = 1
    /\ ReaddirFails(croot[k])

\* C23: when the readdir of expandNode fails, the node keeps loaded = false
\* and its children and hasChildren, whether the error policy swallows the
\* failure (the call resolves) or escalates it (the call rejects); the node
\* is then still one that expandNode works on, so a later call reads again.
C23_ExpandFailureKeepsNode ==
    /\ [][\A k \in Calls :
             (ExpandReaddirDone(k) /\ ReaddirFails(croot[k])) =>
                 /\ heap' = heap
                 /\ ~heap'[croot[k]].loaded
                 /\ cstate'[k] = (IF HandleError(Options) = "continue"
                                  THEN "resolved" ELSE "rejected")]_vars
    /\ [](\A k \in Calls :
             ExpandHasFailed(k) =>
                 /\ heap[croot[k]].type = "directory"
                 /\ ~heap[croot[k]].loaded
                 /\ ~ExpandSkips(heap[croot[k]]))

\* C23 witness: expandNode was rejected on the unreadable root/a, was called
\* again, read the directory again and was rejected again; root/a is still
\* an unloaded directory without children.
C23_Witness ==
    /\ \A k \in Calls : ExpandHasFailed(k) /\ croot[k] = 2 /\ cstate[k] = "rejected"
    /\ heap[2].type = "directory"
    /\ ~heap[2].loaded
    /\ heap[2].children = <<>>
    /\ heap[1].loaded

\* C23 witness of the swallowed failure: expandNode resolved on the
\* unreadable root/a and left it unloaded.
C23_WitnessSwallowed ==
    \E k \in Calls :
        /\ ExpandHasFailed(k) /\ croot[k] = 2 /\ cstate[k] = "resolved"
        /\ ~heap[2].loaded

\* C24: expandNode changes the loaded, children and hasChildren fields of
\* the node it is called on and nothing else of the tree: every other node
\* that the tree held before (parent, siblings, the rest) has all its
\* fields afterwards, and the node itself keeps its type, depth and size.
\* Below the node the tree holds the nodes the call has built.
C24_ExpandTouchesOneNode ==
    [][\A m \in Nodes :
          (heap[m].type # "none" /\ heap'[m] # heap[m]) =>
              \E k \in Calls :
                  /\ ExpandKidsDone(k)
                  /\ \/ /\ m = croot[k]
                        /\ [heap'[m] EXCEPT !.loaded = heap[m].loaded,
                                            !.children = heap[m].children,
                                            !.hasChildren = heap[m].hasChildren] = heap[m]
                     \/ /\ Below(croot[k], m)
                        /\ gen'[m] # gen[m] \/ heap'[m] = NoNode]_vars

\* C24 witness: the empty directory root/b has been expanded; its parent
\* still lists the same three children and its sibling root/a is still an
\* unloaded directory.
C24_Witness ==
    /\ fs = ForkFs
    /\ writes[3] = 1
    /\ heap[3].loaded
    /\ heap[3].hasChildren = "false"
    /\ heap[1].children = <<2, 3, 4>>
    /\ heap[2].type = "directory"
    /\ ~heap[2].loaded
    /\ heap[4].type = "file"

\* expandNode call k is running on node n.
Expanding(k, n) == cop[k] = ExpandNodeOp /\ cstate[k] = "running" /\ croot[k] = n

\* C25: a directory node is loaded exactly once: however expandNode calls on
\* one unloaded node interleave, two overlapping calls on one instance
\* included, at most one call assigns the node's children, and once the
\* calls have settled the children are the node's one-level listing (on a
\* tree without hard links and failing calls: every entry that passes the
\* filter).
C25_LoadedExactlyOnce ==
    \A n \in Nodes :
        /\ writes[n] <= 1
        /\ (/\ writes[n] >= 1
            /\ \A k \in Calls : ~Expanding(k, n)
            /\ fs \in {ChainFs, ForkFs}) =>
               heap[n].children = SelectSeq(Entries(n), LAMBDA m : m \in Passing(n))

\* The second half of C25 alone: the children once the calls have settled.
C25_FinalChildren ==
    \A n \in Nodes :
        (/\ writes[n] >= 1
         /\ \A k \in Calls : ~Expanding(k, n)
         /\ fs \in {ChainFs, ForkFs}) =>
            heap[n].children = SelectSeq(Entries(n), LAMBDA m : m \in Passing(n))

\* C26: loaded is terminal. A node's loaded flag never goes from true to
\* false; a directory node's flag goes from false to true only when an
\* expandNode call on that node completes; and between a node's
\* construction in the initial build and the build's end, the pre-check of
\* the unloaded directories included, its flag does not change.
C26_LoadedTerminal ==
    /\ [][\A n \in Nodes :
             (heap[n].type # "none" /\ heap'[n].type # "none" /\ gen'[n] = gen[n]) =>
                 /\ heap[n].loaded => heap'[n].loaded
                 /\ (~heap[n].loaded /\ heap'[n].loaded) =>
                        /\ heap[n].type = "directory"
                        /\ \E k \in Calls : ExpandKidsDone(k) /\ croot[k] = n]_vars
    /\ [][\A n \in Nodes :
             (cop[1].name = "lazyTree" /\ tnode[1][n].type # "none"
                 /\ tnode'[1][n].type # "none") =>
                 tnode'[1][n].loaded = tnode[1][n].loaded]_vars

\* C26 witness: after a build with preCheckChildren, root/b was loaded by
\* expandNode and has stayed loaded through a later call, while root/a,
\* whose hasChildren the pre-check has set, is still unloaded.
C26_Witness ==
    /\ fs = ForkFs
    /\ writes[3] = 1
    /\ heap[3].loaded
    /\ nExpand >= 2
    /\ heap[2].hasChildren = "true"
    /\ ~heap[2].loaded

\* The tree t rooted at path r is well shaped: the root has depth 0, every
\* child is a node one level below its parent, and a node that is no
\* directory carries no children.
WellShaped(t, r) ==
    /\ t[r].type # "none"
    /\ t[r].depth = 0
    /\ \A n \in Nodes :
           t[n].type # "none" =>
               /\ \A m \in Range(t[n].children) :
                      /\ t[m].type # "none"
                      /\ t[m].depth = t[n].depth + 1
               /\ t[n].type # "directory" => (~t[n].withChildren /\ t[n].children = <<>>)
               /\ t[n].type = "directory" => t[n].withChildren

\* C27: every tree that tree() or lazyTree() resolves with is well shaped,
\* and a lazy tree stays well shaped under every sequence of expandNode
\* calls: root depth 0, child depth = parent depth + 1, children only on
\* nodes of type 'directory'.
C27_TreeShape ==
    /\ \A k \in Calls :
           (cop[k].name \in {"tree", "lazyTree"} /\ cstate[k] = "resolved") =>
               WellShaped(tnode[k], croot[k])
    /\ heap[1].type # "none" => WellShaped(heap, 1)

\* C27 witness: on the chain, level1 and then level2 have been expanded;
\* level2's entries are nodes at depth 3, the file without children.
C27_Witness ==
    /\ fs = ChainFs
    /\ writes[2] = 1
    /\ writes[4] = 1
    /\ heap[4].children = <<5, 6>>
    /\ heap[5].depth = 3
    /\ heap[6].depth = 3
    /\ heap[6].type = "directory"

\* ------------------------------------------ properties: the pure helpers

\* C28: checkInode(stats) returns false the first time an identity
\* (dev, ino) is presented after a clear, and records it; it returns true
\* every later time, for any stats object of that identity, until
\* clearInode; identities that differ in dev or in ino are tracked
\* independently of each other, and clearInode forgets them all.
C28_CheckInode ==
    /\ [][\A d \in Devs, i \in Inos, sz \in {0, 1} :
             CheckInodeCall(StatsOf(d, i, sz)) =>
                 /\ ret'.result = (<<d, i>> \in hist)
                 /\ \A e \in Devs, j \in Inos :
                        HasInode(processedInodes', StatsOf(e, j, 0)) =
                            (HasInode(processedInodes, StatsOf(e, j, 0))
                                \/ (e = d /\ j = i))]_vars
    /\ [](\A d \in Devs, i \in Inos, sz \in {0, 1} :
             HasInode(processedInodes, StatsOf(d, i, sz)) = (<<d, i>> \in hist))
    /\ [][ClearInodeCall => processedInodes' = {}]_vars

\* C28 witness: checkInode has just returned true for a stats object of
\* identity (1, 12) other than the one first presented, while (11, 2) and
\* (1, 2) have not been presented.
C28_Witness ==
    /\ ret = [fn |-> "checkInode", stats |-> StatsOf(1, 12, 1), result |-> TRUE]
    /\ hist = {<<1, 12>>, <<11, 12>>}
    /\ ~HasInode(processedInodes, StatsOf(11, 2, 0))
    /\ ~HasInode(processedInodes, StatsOf(1, 2, 0))

\* The final component of path p: what lies between the last separator and
\* the end, trailing separators not counted.
FinalComponent(p) ==
    LET e == CHOOSE k \in 0..Len(p) :
                 /\ \A j \in (k + 1)..Len(p) : p[j] = "/"
                 /\ k = 0 \/ p[k] # "/"
        b == CHOOSE k \in 0..e :
                 /\ k = 0 \/ p[k] = "/"
                 /\ \A j \in (k + 1)..e : p[j] # "/"
    IN  SubSeq(p, b + 1, e)

\* The final component starts with a dot and is neither "." nor "..".
DotName(p) ==
    LET name == FinalComponent(p)
    IN  name # <<>> /\ name[1] = "." /\ name # <<".">> /\ name # <<".", ".">>

\* The pattern matches somewhere in the string.
PatternMatches(re, val) == \E i \in 0..Len(val) : MatchesAt(re, val, i)

\* What C29 states of one shouldIgnorePath call.
IgnoredAsStated(ignores, p, includeHidden) ==
    \/ ~includeHidden /\ DotName(p)
    \/ \E i \in 1..Len(ignores) : PatternMatches(ignores[i], p)

\* C29: shouldIgnorePath(ignores, path, includeHidden) returns true iff
\* includeHidden is false and the final path component starts with '.' and
\* is neither '.' nor '..', or at least one pattern of ignores matches the
\* full path string; with no patterns and includeHidden = true it returns
\* false for every path.
C29_ShouldIgnorePath ==
    [][ret'.result = IgnoredAsStated(given.ignores, ret'.path, ret'.includeHidden)]_vars

\* C29 holds of the patterns without the g flag, whose test() does not
\* depend on earlier calls.
C29_WithoutGlobalFlag ==
    [][(\A i \in 1..Len(given.ignores) : ~given.ignores[i].global) =>
          ret'.result = IgnoredAsStated(given.ignores, ret'.path, ret'.includeHidden)]_vars

\* C30: the total of size() is the exact sum of the contributing lstat
\* sizes: its decimal digits are those of the sum computed on the bigints,
\* digit for digit, also when a single size or the sum exceeds 2^53.
C30_ExactTotal == ret.totalSize = BigIntToString(hist.sum)

\* C30 witness: three entries have been added, one of them larger than
\* 2^53, and the total is the odd number 2^54 + 2^53 + 1, which no double
\* represents.
C30_Witness ==
    /\ hist.entries = 3
    /\ hist.sum = BigInt(3 * (2 ^ 26), 1)
    /\ ret.totalSize = <<"2", "7", "0", "2", "1", "5", "9", "7", "7", "6",
                         "4", "2", "2", "2", "9", "7", "7">>

\* The directories of call k whose listing succeeded and whose nodeCallback
\* has run.
VisitedListed(k) ==
    {n \in Visited(k) : Lstat(n).kind = "directory" /\ n \notin fs.dirFails}

\* C31: structured concurrency. nodeCallback runs at most once per path;
\* when it has run for a listed directory, the traversal of every one of
\* the directory's entries has finished (returned a node, returned null or
\* thrown); the counters are at every instant the fold of exactly the
\* entries visited so far, and a tree() node holds each visited entry once;
\* and once the call has settled no child traversal is in flight or queued.
C31_StructuredConcurrency ==
    \A k \in Calls :
        /\ \A n \in Nodes : visits[k][n] <= 1
        /\ \A n \in VisitedListed(k) :
              /\ \A m \in Nodes : InSeq(m, Entries(n)) =>
                     tpc[k][m] = "done" /\ tret[k][m] # "none"
              /\ cop[k].name = "tree" =>
                     \A m \in Nodes : InSeq(m, Entries(n)) =>
                         Cardinality({i \in 1..Len(tnode[k][n].children) :
                                         tnode[k][n].children[i] = m})
                           = visits[k][m]
        /\ acc[k] = Expected(k, Visited(k))
        /\ Settled(k) => \A n \in Nodes : tpc[k][n] \in {"none", "done"}

\* C31 witness: a tree() call with one permit per directory has resolved on
\* the wide tree although the lstat of root/a/x failed: root and root/a were
\* visited after their entries, of which x was not visited.
C31_Witness ==
    /\ cop[1].name = "tree"
    /\ cstate[1] = "resolved"
    /\ Options.concurrency = 1
    /\ fs.statFails = {5}
    /\ VisitedListed(1) = {1, 2}
    /\ visits[1][5] = 0
    /\ tnode[1][2].children = <<6>>

\* The entries of directory n whose wrapper holds a permit in call k: the
\* permit is granted, or the processor is running.
Running(k, n) ==
    {m \in Nodes : InSeq(m, Entries(n))
                   /\ tpc[k][m] \in {"granted", "lstat", "readdir", "kids"}}

\* The directories of call k whose concurrentMap call has been made.
Mapped(k) == {n \in Nodes : tpc[k][n] = "kids"} \cup VisitedListed(k)

\* C32, at every instant of one concurrentMap call with concurrency N >= 1:
\* at most N wrappers hold a permit; the wrappers still waiting are exactly
\* the queued ones, in input order, and wait only while N wrappers hold a
\* permit (no exit path keeps one); no entry is stat'ed twice; and once the
\* call has resolved every item's processor has run, release() has been
\* called once per item (which leaves N permits less one per hand-off), the
\* result array has one slot per item in input order, null for an item
\* whose processor returned null or threw, and tree() keeps the others in
\* that order.
C32_ConcurrentMapState ==
    \A k \in Calls : \A n \in Mapped(k) :
        LET N == Options.concurrency
            M == Len(Entries(n))
            waiting == SelectSeq(Entries(n), LAMBDA m : tpc[k][m] = "queued")
        IN  /\ Cardinality(Running(k, n)) <= N
            /\ dsem[k][n].waiters = waiting
            /\ waiting # <<>> => Cardinality(Running(k, n)) = N
            /\ \A m \in Nodes : InSeq(m, Entries(n)) => io[k][m].lstat <= 1
            /\ n \in VisitedListed(k) =>
                  /\ \A m \in Nodes : InSeq(m, Entries(n)) => tpc[k][m] = "done"
                  /\ dsem[k][n].available = N - (IF M > N THEN M - N ELSE 0)
                  /\ Len(Results(k, n)) = M
                  /\ \A i \in 1..M :
                        /\ Results(k, n)[i].item = Entries(n)[i]
                        /\ Results(k, n)[i].value = "null" <=>
                              tret[k][Entries(n)[i]] \in {"null", "stopped", "error"}
                  /\ cop[k].name = "tree" =>
                        tnode[k][n].children =
                            SelectSeq(Entries(n), LAMBDA m : visits[k][m] = 1)

\* C32, step by step: a processor that has been started is never started
\* again, and a wrapper's processor starts only when it holds a permit.
C32_StartedOnce ==
    [][\A k \in Calls : \A m \in Nodes :
          /\ tpc[k][m] \in {"lstat", "readdir", "kids", "done"} =>
                 tpc'[k][m] \notin {"none", "queued", "granted"}
          /\ (tpc[k][m] = "queued" /\ tpc'[k][m] # "queued") => tpc'[k][m] = "granted"
      ]_vars

NodesOfType(k, t) ==
    {n \in Nodes : n # croot[k] /\ tnode[k][n].type = t}

\* C33: the loaded counters of a lazyTree() result count the loaded nodes
\* only: loadedDirectoryCount is the number of directory nodes other than
\* the root with loaded = true, loadedFileCount and loadedLinkCount the
\* numbers of file and link nodes with loaded = true.
C33_LoadedCounters ==
    \A k \in Calls :
        (cop[k].name = "lazyTree" /\ cstate[k] = "resolved") =>
            /\ acc[k].directoryCount =
                   Cardinality({n \in NodesOfType(k, "directory") : tnode[k][n].loaded})
            /\ acc[k].fileCount =
                   Cardinality({n \in NodesOfType(k, "file") : tnode[k][n].loaded})
            /\ acc[k].linkCount =
                   Cardinality({n \in NodesOfType(k, "link") : tnode[k][n].loaded})

\* What the counters are: one increment per node the callback built, loaded
\* or not, by the kind lstat reported (a node of type 'file' built for an
\* entry that is neither file, directory nor link is counted nowhere).
C33_CountsEveryNode ==
    \A k \in Calls :
        (cop[k].name = "lazyTree" /\ cstate[k] = "resolved") =>
            /\ acc[k].directoryCount = Cardinality(NodesOfType(k, "directory"))
            /\ acc[k].fileCount =
                   Cardinality({n \in NodesOfType(k, "file") : fs.kind[n] = "file"})
            /\ acc[k].linkCount = Cardinality(NodesOfType(k, "link"))

\* The visited paths of call k that lstat reported as one of `kinds`.
VisitedOfKind(k, kinds) == {n \in Visited(k) : fs.kind[n] \in kinds}

C35_Termination ==
    (Options.concurrency >= 1 /\ cstate[1] = "running") ~> Settled(1)

\* C35 witness: with one permit per directory a call has resolved on the
\* chain after visiting the file below level3, reached while root/level1,
\* level2 and level3 each held the only permit of their parent's pool;
\* in level1 and level2 the permit was handed from the file to the directory.
C35_Witness ==
    /\ Options.concurrency = 1
    /\ fs = ChainFs
    /\ croot[1] = 1
    /\ cstate[1] = "resolved"
    /\ visits[1][7] = 1
    /\ dsem[1][1] = [available |-> 1, waiters |-> <<>>]
    /\ \A n \in {2, 4} : dsem[1][n] = [available |-> 0, waiters |-> <<>>]

\* The root of call k is a directory that call k has listed, with at least
\* one entry.
ListsEntries(k) ==
    /\ Lstat(croot[k]).kind = "directory"
    /\ croot[k] \notin fs.dirFails
    /\ io[k][croot[k]].readdir > 0
    /\ Entries(croot[k]) # <<>>

\* C36: with concurrency = 0 a call whose root directory lists at least one
\* entry never settles: every entry's wrapper queues and no permit ever
\* comes. A call on an empty directory or on a path that is no directory
\* settles as with any other concurrency.
C36_ZeroNeverSettles ==
    /\ [](\A k \in Calls :
            (Options.concurrency = 0 /\ ListsEntries(k)) =>
                /\ ~Settled(k)
                /\ \A m \in Nodes : InSeq(m, Entries(croot[k])) => tpc[k][m] = "queued")
    /\ (/\ Options.concurrency = 0
        /\ cstate[1] = "running"
        /\ Lstat(croot[1]).kind # "directory" \/ Entries(croot[1]) = <<>>)
          ~> Settled(1)

\* C36 witness: size() with concurrency 0 on the wide tree is stuck after
\* the root's listing: the three entries are queued and nothing can run.
C36_Witness ==
    /\ Options.concurrency = 0
    /\ cop[1].name = "size"
    /\ fs = KindsFs({})
    /\ croot[1] = 1
    /\ cstate[1] = "running"
    /\ tpc[1][1] = "kids"
    /\ dsem[1][1] = [available |-> 0, waiters |-> <<2, 3, 4>>]
    /\ ~ENABLED SettleNext

\* C36 witness of the other half: a call with concurrency 0 on an empty
\* directory has resolved.
C36_WitnessEmpty ==
    /\ Options.concurrency = 0
    /\ fs = EmptyFs
    /\ croot[1] = 1
    /\ cstate[1] = "resolved"
    /\ io[1][1].readdir = 1

\* The position of x in the sequence q (0: none).
IndexIn(q, x) == IF InSeq(x, q) THEN CHOOSE i \in 1..Len(q) : q[i] = x ELSE 0

\* C37: in a tree() result the children of a directory node are the
\* entries of its listing whose traversal returned a node, each once, in
\* the relative order of the listing, whatever order the traversals of the
\* entries completed in.
C37_ChildrenInListingOrder ==
    \A k \in Calls : \A n \in Nodes :
        (cop[k].name = "tree" /\ tnode[k][n].type = "directory") =>
            LET children == tnode[k][n].children
            IN  /\ \A m \in Nodes :
                       InSeq(m, children) <=>
                           (InSeq(m, Entries(n)) /\ n \notin fs.dirFails
                               /\ tret[k][m] = "returned")
                /\ \A i, j \in 1..Len(children) :
                       i < j => IndexIn(Entries(n), children[i])
                                  < IndexIn(Entries(n), children[j])

\* C37, a state on the way: tree() with two permits on the wide tree;
\* root/b and root/c, second and third in the listing, have returned their
\* nodes while root/a, first in the listing, is still waiting for its
\* entries, of which y has returned before x.
C37_OutOfOrder ==
    /\ cop[1].name = "tree"
    /\ Options.concurrency = 2
    /\ fs = KindsFs({})
    /\ tpc[1][1] = "kids"
    /\ tpc[1][2] = "kids"
    /\ tret[1][3] = "returned" /\ tret[1][4] = "returned"
    /\ tret[1][6] = "returned" /\ tpc[1][5] = "lstat"

\* C37 witness: the same call has resolved; the children of the root and of
\* root/a are in listing order.
C37_Witness ==
    /\ cop[1].name = "tree"
    /\ Options.concurrency = 2
    /\ fs = KindsFs({})
    /\ cstate[1] = "resolved"
    /\ tnode[1][1].children = <<2, 3, 4>>
    /\ tnode[1][2].children = <<5, 6>>

\* The three counts of a result.
Counts(a) ==
    [fileCount |-> a.fileCount, directoryCount |-> a.directoryCount,
     linkCount |-> a.linkCount]

C39_NodeCountsAgree ==
    \A k \in Calls :
        (cop[k].name = "tree" /\ cstate[k] = "resolved") =>
            /\ Cardinality(NodesOfType(k, "file")) = acc[k].fileCount
            /\ Cardinality(NodesOfType(k, "link")) = acc[k].linkCount
            /\ Cardinality(NodesOfType(k, "directory")) = acc[k].directoryCount

\* What holds instead: the links and directories agree, and the nodes of
\* type 'file' are the counted files plus the visited entries of another
\* kind.
C39_FileNodesIncludeOthers ==
    \A k \in Calls :
        (cop[k].name = "tree" /\ cstate[k] = "resolved") =>
            /\ Cardinality(NodesOfType(k, "file")) =
                   acc[k].fileCount + Cardinality(VisitedOfKind(k, {"other"}) \ {croot[k]})
            /\ Cardinality(NodesOfType(k, "link")) = acc[k].linkCount
            /\ Cardinality(NodesOfType(k, "directory")) = acc[k].directoryCount

\* The root of call k is filtered out: its final component is hidden while
\* includeHidden is false, or its path matches an ignore pattern.
RootFiltered(k) ==
    \/ ~Options.includeHidden /\ DotName(PathOf(croot[k]))
    \/ \E i \in 1..Len(Options.ignores) :
          PatternMatches(Options.ignores[i], PathOf(croot[k]))

\* The lstat of the root of call k fails and the error policy continues.
RootErrorSwallowed(k) ==
    /\ croot[k] \in fs.statFails
    /\ \/ Options.onError = "continue"
       \/ Options.onError = "undefined" /\ Options.ignoreErrors

\* C40: the root path goes through the filter and the error policy like
\* any entry. A call whose root is filtered out makes no lstat call at all;
\* when the root is filtered out or its lstat error is swallowed, size()
\* resolves with size 0 and all counts 0, while tree() and lazyTree()
\* reject for want of a root node; and tree() and lazyTree() never resolve
\* without a root node.
C40_SkippedRoot ==
    \A k \in Calls :
        /\ RootFiltered(k) => \A n \in Nodes : io[k][n] = NoIo
        /\ (Settled(k) /\ (RootFiltered(k) \/ RootErrorSwallowed(k))) =>
              /\ tret[k][croot[k]] = "null"
              /\ Visited(k) = {}
              /\ IF cop[k].name = "size"
                 THEN cstate[k] = "resolved" /\ acc[k] = ZeroAcc
                 ELSE cstate[k] = "rejected"
        /\ (cstate[k] = "resolved" /\ cop[k].name # "size") =>
              tnode[k][croot[k]].type # "none"

\* C40 witness: lazyTree() on a hidden root with includeHidden = false has
\* rejected without a single lstat call.
C40_Witness ==
    /\ cop[1].name = "lazyTree"
    /\ fs = KindsFs({1})
    /\ croot[1] = 1
    /\ ~Options.includeHidden
    /\ cstate[1] = "rejected"
    /\ tret[1][1] = "null"
    /\ io[1][1] = NoIo

\* C40, the other cases reached: size() resolved with zeros on a root whose
\* lstat failed under the default policy, and tree() rejected on a root
\* that matches an ignore pattern.
C40_WitnessSizeZero ==
    /\ cop[1].name = "size"
    /\ fs.statFails = {1} /\ croot[1] = 1
    /\ given.onError = "omitted" /\ ~given.ignoreErrors
    /\ cstate[1] = "resolved"
    /\ acc[1] = ZeroAcc
    /\ io[1][1].lstat = 1

C40_WitnessIgnored ==
    /\ cop[1].name = "tree"
    /\ Options.ignores = <<RegExp(<<"r">>, TRUE, FALSE)>>
    /\ croot[1] = 1
    /\ cstate[1] = "rejected"
    /\ tret[1][1] = "null"

====
